---- MODULE Spec2Model ----
(***************************************************************************)
(* AdvancedDataPreprocessor (src/src/python-codes/pre-processing/          *)
(* preprocessing_api.py): the twelve-stage preprocessing pipeline, its     *)
(* configuration dispatch, its per-stage and outer exception handling,     *)
(* and the report it assembles.                                            *)
(*                                                                         *)
(* Numbers.  A numeric cell holds an integer number of halves (v = 3 is    *)
(* 1.5), so that a median of two integers is representable; t counts the   *)
(* log1p transforms applied to it.  Thresholds are held in percent.        *)
(***************************************************************************)
EXTENDS Integers, Sequences, FiniteSets, TLC

VARIABLES
    input_df,            \* the caller's DataFrame, as passed to __init__
    raw_config,          \* the preprocessing_config argument of __init__
    target_col,          \* self.target_col ("" is None)
    config,              \* self.config
    df,                  \* self.df
    original_df,         \* self.original_df
    numeric_cols,        \* self.numeric_cols
    categorical_cols,    \* self.categorical_cols
    datetime_cols,       \* self.datetime_cols
    preprocessing_log,   \* self.preprocessing_log
    preprocessing_stats, \* self.preprocessing_stats
    pc,                  \* position of preprocess_all: 1..12 stage, 13 report, 14 returned
    returned,            \* what preprocess_all returned: [kind, df]
    report,              \* what get_preprocessing_report returned last
    injected,            \* TRUE once the environment has raised a fault (e.g. MemoryError)
    status,              \* history: per stage "pending", "disabled", "completed", "raised"
    events,              \* history: start/finish/raise/report events in order
    pre,                 \* history: the preprocessor's state before the last stage, and
                         \* what the library calls of that stage did
    peer,                \* a second AdvancedDataPreprocessor, of another request, while
                         \* it is not the one that runs
    oracle               \* what the library calls return, where that is fixed beforehand

vars == <<input_df, raw_config, target_col, config, df, original_df, numeric_cols,
          categorical_cols, datetime_cols, preprocessing_log, preprocessing_stats,
          pc, returned, report, injected, status, events, pre, peer, oracle>>

-----------------------------------------------------------------------------
(* Bounds of the model *)

\* how many points inside one stage an environment fault is tried at
MaxPoint == 2
\* how many rows the isolation forest may flag
MaxFlagged == 1

-----------------------------------------------------------------------------
(* Generic helpers *)

Range(s) == {s[i] : i \in 1..Len(s)}

InSeq(x, s) == \E i \in 1..Len(s) : s[i] = x

Without(s, S) == SelectSeq(s, LAMBDA x : x \notin S)

\* list.remove(x): removes the first occurrence
RemoveFirst(s, x) ==
    IF ~InSeq(x, s) THEN s
    ELSE LET i == CHOOSE j \in 1..Len(s) : s[j] = x /\ \A m \in 1..(j-1) : s[m] # x
         IN  SubSeq(s, 1, i-1) \o SubSeq(s, i+1, Len(s))

IsPrefix(s, t) == Len(s) <= Len(t) /\ SubSeq(t, 1, Len(s)) = s

RECURSIVE SumSeq(_)
SumSeq(s) == IF s = <<>> THEN 0 ELSE Head(s) + SumSeq(Tail(s))

Abs(n) == IF n < 0 THEN -n ELSE n

Min2(a, b) == IF a <= b THEN a ELSE b

-----------------------------------------------------------------------------
(* Cells and frames *)

NaN == [k |-> "nan", s |-> "", v |-> 0, t |-> 0]
Inf == [k |-> "inf", s |-> "", v |-> 0, t |-> 0]
Num(n) == [k |-> "num", s |-> "", v |-> 2 * n, t |-> 0]
Half(h) == [k |-> "num", s |-> "", v |-> h, t |-> 0]
\* the number n + 1e-10: it counts as n in the arithmetic of the model
Near(n) == [k |-> "num", s |-> "+1e-10", v |-> 2 * n, t |-> 0]
Str(x) == [k |-> "str", s |-> x, v |-> 0, t |-> 0]

IsNull(c) == c.k = "nan"

ColSet(d) == Range(d.cols)

NRows(d) == Len(d.rows)

NCols(d) == Len(d.cols)

Shape(d) == <<NRows(d), NCols(d)>>

Column(d, c) == [i \in 1..NRows(d) |-> d.rows[i][c]]

\* DataFrame.drop(columns=S)
DropColumns(d, S) ==
    [cols  |-> Without(d.cols, S),
     dtype |-> [c \in ColSet(d) \ S |-> d.dtype[c]],
     rows  |-> [i \in 1..NRows(d) |-> [c \in ColSet(d) \ S |-> d.rows[i][c]]]]

\* df[c] = values, with the dtype the values have
SetColumn(d, c, vals, ty) ==
    [d EXCEPT !.dtype = [x \in ColSet(d) |-> IF x = c THEN ty ELSE d.dtype[x]],
              !.rows  = [i \in 1..NRows(d) |->
                            [x \in ColSet(d) |-> IF x = c THEN vals[i] ELSE d.rows[i][x]]]]

\* df[c] = f(df[c]) cell by cell
MapColumn(d, c, f(_), ty) ==
    SetColumn(d, c, [i \in 1..NRows(d) |-> f(d.rows[i][c])], ty)

\* df[mask]: the rows at the kept positions, in order
KeepRows(d, keep) ==
    LET idx == SelectSeq([i \in 1..NRows(d) |-> i], LAMBDA i : i \in keep)
    IN  [d EXCEPT !.rows = [j \in 1..Len(idx) |-> d.rows[idx[j]]]]

\* df.isnull().sum().sum()
NullCount(d) ==
    SumSeq([i \in 1..NRows(d) |->
               Cardinality({c \in ColSet(d) : IsNull(d.rows[i][c])})])

NullsIn(d, c) == Cardinality({i \in 1..NRows(d) : IsNull(d.rows[i][c])})

\* df.select_dtypes(include=...).columns, in column order
ColsOfType(d, types) == SelectSeq(d.cols, LAMBDA c : d.dtype[c] \in types)

-----------------------------------------------------------------------------
(* Configuration *)

\* the twelve factors, in the order preprocess_all calls them
StageOrderSwapped ==
    <<"duplicates", "missing_values", "invalid_data", "data_type_mismatch",
      "inconsistent_formats", "outliers", "cardinality", "low_variance",
      "feature_correlation", "mean_median_drift", "range_violations",
      "class_imbalance">>

StageOrder ==
    <<"missing_values", "duplicates", "invalid_data", "data_type_mismatch",
      "inconsistent_formats", "outliers", "cardinality", "low_variance",
      "feature_correlation", "mean_median_drift", "range_violations",
      "class_imbalance">>

StageNames == Range(StageOrder)

NStages == Len(StageOrder)

\* _get_default_config(): percentages for fractions; keep 1 is 'first', 2 is 'last';
\* method, auto_fix, target_ratio, auto_convert and auto_bounds are never read (0)
DefaultParams ==
    [missing_values       |-> [method |-> 0, max_missing_threshold |-> 50],
     duplicates           |-> [method |-> 0, keep |-> 1],
     invalid_data         |-> [method |-> 0, confidence_level |-> 5],
     outliers             |-> [method |-> 0, contamination |-> 10],
     inconsistent_formats |-> [method |-> 0, auto_fix |-> 1],
     cardinality          |-> [method |-> 0, max_cardinality |-> 100],
     class_imbalance      |-> [method |-> 0, target_ratio |-> 0],
     data_type_mismatch   |-> [method |-> 0, auto_convert |-> 1],
     feature_correlation  |-> [method |-> 0, threshold |-> 90],
     low_variance         |-> [method |-> 0, threshold |-> 1],
     mean_median_drift    |-> [method |-> 0, threshold |-> 20],
     range_violations     |-> [method |-> 0, auto_bounds |-> 1]]

\* a configuration value: True, False, a dict, or another truthy / falsy value
NoParams == [x \in {} |-> 0]
CfgTrue == [kind |-> "true", params |-> NoParams]
CfgFalse == [kind |-> "false", params |-> NoParams]
CfgTruthy == [kind |-> "truthy", params |-> NoParams]
CfgFalsy == [kind |-> "falsy", params |-> NoParams]
CfgObject(p) == [kind |-> "object", params |-> p]

\* bool(val)
Truthy(val) ==
    \/ val.kind \in {"true", "truthy"}
    \/ val.kind = "object" /\ DOMAIN val.params # {}

_get_default_config ==
    [kind    |-> "mapping",
     entries |-> [key \in StageNames |-> CfgObject(DefaultParams[key])]]

\* bool(preprocessing_config)
ConfigTruthy(c) ==
    \/ c.kind = "nonmapping"
    \/ c.kind = "mapping" /\ DOMAIN c.entries # {}

\* self.config = preprocessing_config or self._get_default_config()
InitConfig(c) == IF ConfigTruthy(c) THEN c ELSE _get_default_config

\* self.config.get(key, True)
ConfigGet(c, key) == IF key \in DOMAIN c.entries THEN c.entries[key] ELSE CfgTrue

\* the factor's configuration: [none |-> TRUE] is None
_get_factor_config(c, key) ==
    LET val == ConfigGet(c, key)
    IN  IF val.kind = "object" THEN [none |-> FALSE, params |-> val.params]
        ELSE IF val.kind = "true"
             THEN [none |-> FALSE, params |-> _get_default_config.entries[key].params]
             ELSE [none |-> TRUE, params |-> NoParams]

\* preprocess_all's test before each step: not cfg or cfg.get(key, True);
\* .get on a value that is no mapping raises AttributeError
DispatchRaises(c) == c.kind = "nonmapping"

Dispatch(c, key) == ~ConfigTruthy(c) \/ Truthy(ConfigGet(c, key))

\* the parameters a handler reads as cfg[name]: a KeyError when one is absent
RequiredParams(key) == IF key = "missing_values" THEN {"max_missing_threshold"} ELSE {}

\* cfg.get(name, fallback)
ParamGet(params, name, fallback) ==
    IF name \in DOMAIN params THEN params[name] ELSE fallback

-----------------------------------------------------------------------------
(* The preprocessor's mutable state, and what one handler does to it *)

\* the fields of self a handler reads and writes
SelfOf(d, nc, cc, dc, lg, st) ==
    [df |-> d, numeric_cols |-> nc, categorical_cols |-> cc, datetime_cols |-> dc,
     preprocessing_log |-> lg, preprocessing_stats |-> st]

\* a log line: the stage that wrote it, its fixed text, its count and its columns
LogEntry(key, text, n, cols) == [stage |-> key, text |-> text, n |-> n, cols |-> cols]

\* self.preprocessing_log.append(entry)
AppendLogFront(self, entry) ==
    [self EXCEPT !.preprocessing_log = <<entry>> \o self.preprocessing_log]

AppendLog(self, entry) ==
    [self EXCEPT !.preprocessing_log = Append(self.preprocessing_log, entry)]

\* self.preprocessing_stats[key] = value
SetStats(self, key, value) ==
    [self EXCEPT !.preprocessing_stats =
        [x \in DOMAIN self.preprocessing_stats \cup {key} |->
            IF x = key THEN value ELSE self.preprocessing_stats[x]]]

\* A handler's run is the sequence of states of self it goes through: trace[1] is
\* the state it starts in, each later entry the state after one more mutation.  It
\* ends normally in the last state, or raises there.
Last(tr) == tr[Len(tr)]

Ok(tr) == [trace |-> tr, raised |-> FALSE]

Raise(tr) == [trace |-> tr, raised |-> TRUE]

\* a local name: the value v, called by the parameter of F
With(v, F(_)) == F(v)

\* one statement that mutates self, run when cond holds: self becomes F(self)
Mut(tr, cond, F(_)) == IF cond THEN Append(tr, F(Last(tr))) ELSE tr

-----------------------------------------------------------------------------
(* Step 1: missing values *)

\* the observed numeric values of a column, in halves
NumVals(d, c) ==
    LET idx == SelectSeq([i \in 1..NRows(d) |-> i], LAMBDA i : d.rows[i][c].k = "num")
    IN  [j \in 1..Len(idx) |-> d.rows[idx[j]][c].v]

SeqMin(s) == CHOOSE x \in Range(s) : \A y \in Range(s) : x <= y

SeqMax(s) == CHOOSE x \in Range(s) : \A y \in Range(s) : x >= y

\* df[col].isnull().mean() > threshold
MissingAbove(d, c, thr) == NRows(d) > 0 /\ NullsIn(d, c) * 100 > thr * NRows(d)

\* IterativeImputer.fit_transform raises on an infinite value, and returns fewer
\* columns than it was given when a column has no observed value
ImputerRaises(d, cols) ==
    \E i \in 1..Len(cols) :
        \/ \E r \in 1..NRows(d) : d.rows[r][cols[i]].k = "inf"
        \/ NumVals(d, cols[i]) = <<>>

\* the imputer fills each missing cell with a value it estimates from the observed
\* ones: the lowest or the highest observed value of the column
ImputeColumn(d, c, pick) ==
    With(IF pick = "lo" THEN SeqMin(NumVals(d, c)) ELSE SeqMax(NumVals(d, c)),
         LAMBDA fill : MapColumn(d, c, LAMBDA x : IF IsNull(x) THEN Half(fill) ELSE x, "num"))

RECURSIVE ImputeAll(_, _, _)
ImputeAll(d, cols, pick) ==
    IF cols = <<>> THEN d
    ELSE ImputeAll(ImputeColumn(d, Head(cols), pick), Tail(cols), pick)

\* the order Python sorts the text values in
TokenOrder ==
    <<" a", "2020-01-01", "20200101", "3", "555-1", "5551", "7", "A@555", "A@x",
      "Other", "Unknown", "a", "a  b", "a b", "a@555", "a@x", "ab", "b", "c", "nan",
      "other", "unknown", "x">>

TokenRank(x) == CHOOSE i \in 1..Len(TokenOrder) : TokenOrder[i] = x

CountOf(d, c, cell) == Cardinality({i \in 1..NRows(d) : d.rows[i][c] = cell})

\* the distinct non-null values of a column
Distinct(d, c) == {d.rows[i][c] : i \in 1..NRows(d)} \ {NaN}

\* the most frequent of the values
MostFrequent(d, c, vals) ==
    {x \in vals : \A y \in vals : CountOf(d, c, x) >= CountOf(d, c, y)}

\* the value that sorts first
FirstSorted(vals) == CHOOSE x \in vals : \A y \in vals : TokenRank(x.s) <= TokenRank(y.s)

\* Series.mode()[0]: the most frequent value, the smallest one on a tie;
\* 'Unknown' when the column has no value
ModeOrUnknown(d, c) ==
    IF Distinct(d, c) = {} THEN Str("Unknown")
    ELSE FirstSorted(MostFrequent(d, c, Distinct(d, c)))

\* df[c].fillna(m)
FillColumn(d, c, m) == MapColumn(d, c, LAMBDA x : IF IsNull(x) THEN m ELSE x, d.dtype[c])

RECURSIVE FillModes(_, _)
FillModes(d, cols) ==
    IF cols = <<>> THEN d
    ELSE FillModes(FillColumn(d, Head(cols), ModeOrUnknown(d, Head(cols))), Tail(cols))

HasNull(d, c) == NullsIn(d, c) > 0

\* cols_to_drop
ColsToDrop(d, thr) == SelectSeq(d.cols, LAMBDA c : MissingAbove(d, c, thr))

\* if cols_to_drop: drop them, and log it
DropMissing(self, cols_to_drop) ==
    Mut(Mut(<<self>>,
        cols_to_drop # <<>>,
            LAMBDA a : [a EXCEPT !.df = DropColumns(a.df, Range(cols_to_drop))]),
        cols_to_drop # <<>>,
            LAMBDA a : AppendLog(a, LogEntry("missing_values",
                                             "Dropped columns with >50% missing values",
                                             Len(cols_to_drop), cols_to_drop)))

\* [col for col in cols if col in self.df.columns and self.df[col].isnull().any()]
ColsWithMissing(d, cols) == SelectSeq(cols, LAMBDA c : c \in ColSet(d) /\ HasNull(d, c))

\* if self.df.isnull().sum().sum() > 0: impute the numeric columns, then the
\* categorical ones; then the statistics
ImputeMissing(t1, doNum, numeric_cols_with_missing, doCat, categorical_cols_with_missing, missing_before, dropped, env) ==
    IF doNum /\ ImputerRaises(Last(t1).df, numeric_cols_with_missing)
    THEN Raise(t1)
    ELSE Ok(
    Mut(Mut(Mut(Mut(Mut(t1,
        doNum, LAMBDA a : [a EXCEPT !.df = ImputeAll(a.df, numeric_cols_with_missing,
                                                     env.impute)]),
        doNum, LAMBDA a : AppendLog(a, LogEntry("missing_values",
                                                "Applied MICE imputation to numeric columns",
                                                Len(numeric_cols_with_missing), <<>>))),
        doCat, LAMBDA a : [a EXCEPT !.df = FillModes(a.df, categorical_cols_with_missing)]),
        doCat, LAMBDA a : AppendLog(a, LogEntry("missing_values",
                                                "Applied mode imputation to categorical columns",
                                                Len(categorical_cols_with_missing), <<>>))),
        TRUE,  LAMBDA a : SetStats(a, "missing_values",
                                   [before |-> missing_before, after |-> NullCount(a.df),
                                    columns_dropped |-> dropped])))

AfterDrop(t1, a, missing_before, dropped, env) ==
    ImputeMissing(t1,
                  NullCount(a.df) > 0 /\ ColsWithMissing(a.df, a.numeric_cols) # <<>>,
                  ColsWithMissing(a.df, a.numeric_cols),
                  NullCount(a.df) > 0 /\ ColsWithMissing(a.df, a.categorical_cols) # <<>>,
                  ColsWithMissing(a.df, a.categorical_cols),
                  missing_before, dropped, env)

_handle_missing_values(self, params, env) ==
    IF NCols(self.df) > 0 /\ ~(RequiredParams("missing_values") \subseteq DOMAIN params)
    THEN Raise(<<self>>)
    ELSE
    With(ColsToDrop(self.df, ParamGet(params, "max_missing_threshold", 0)),
         LAMBDA cols_to_drop :
    With(DropMissing(self, cols_to_drop), LAMBDA t1 :
    AfterDrop(t1, Last(t1), NullCount(self.df), Len(cols_to_drop), env)))

-----------------------------------------------------------------------------
(* Step 2: duplicate records *)

\* one cell of str(row.values).  The values of a row of numeric columns are a float
\* array, which prints each number with 8 significant digits: a number and the
\* number 1e-10 above it print alike.  The values of a row with a column that is no
\* number are an object array, which prints the repr of each value, exactly.
CellText(c, floats) ==
    CASE c.k = "nan" -> <<"nan", "", 0, 0>>
      [] c.k = "inf" -> <<"inf", "", 0, 0>>
      [] c.k = "str" -> <<"'", c.s, 0, 0>>
      [] OTHER       -> <<"", IF floats THEN "" ELSE c.s, c.v, c.t>>

\* row.values is a float array: every column of the frame is numeric
FloatRows(d) == \A c \in ColSet(d) : d.dtype[c] = "num"

\* str(row.values): the row's values rendered as text, one token per cell; NaN
\* prints as nan, a text value in quotes, a number by its digits
RowText(d, i) == [j \in 1..NCols(d) |-> CellText(d.rows[i][d.cols[j]], FloatRows(d))]

\* hashlib.md5(text).hexdigest(): equal texts give equal digests, and no two of the
\* texts of one frame collide
create_row_hash(d, i) == RowText(d, i)

\* row_hashes.duplicated(keep): keep 1 is 'first', 2 is 'last', 0 is False
Duplicated(d, keep) ==
    {i \in 1..NRows(d) :
        \/ keep \in {1, 0} /\ \E j \in 1..(i-1) : create_row_hash(d, j) = create_row_hash(d, i)
        \/ keep \in {2, 0} /\ \E j \in (i+1)..NRows(d) :
                                 create_row_hash(d, j) = create_row_hash(d, i)}

\* self.df = self.df[~row_hashes.duplicated(keep=...)]
DropDuplicates(d, keep) == KeepRows(d, (1..NRows(d)) \ Duplicated(d, keep))

\* the statements after the rows are dropped
AfterDuplicates(tr, before_count, after_count) ==
    Mut(Mut(tr,
        before_count - after_count > 0,
            LAMBDA a : AppendLog(a, LogEntry("duplicates",
                                   "Removed duplicate records using bloom filter approach",
                                   before_count - after_count, <<>>))),
        TRUE,
            LAMBDA a : SetStats(a, "duplicates",
                                [before_count |-> before_count, after_count |-> after_count,
                                 removed |-> before_count - after_count]))

_handle_duplicates(self, params, env) ==
    IF ParamGet(params, "keep", 1) \notin {0, 1, 2} THEN Raise(<<self>>)
    ELSE
    With(Mut(<<self>>, TRUE,
             LAMBDA a : [a EXCEPT !.df = DropDuplicates(a.df, ParamGet(params, "keep", 1))]),
         LAMBDA t1 :
    Ok(AfterDuplicates(t1, NRows(self.df), NRows(Last(t1).df))))

-----------------------------------------------------------------------------
(* Step 3: invalid data *)

\* value_counts[value_counts < len(df) * 0.001].index
RareValues(d, c) == {x \in Distinct(d, c) : CountOf(d, c, x) * 1000 < NRows(d)}

\* self.df[col] = self.df[col].replace(rare_values, 'Other'), and its log line
ReplaceRare(tr, hit, c, rare) ==
    Mut(Mut(tr,
        hit, LAMBDA a : [a EXCEPT !.df =
                            MapColumn(a.df, c,
                                      LAMBDA x : IF x \in rare THEN Str("Other") ELSE x,
                                      a.df.dtype[c])]),
        hit, LAMBDA a : AppendLog(a, LogEntry("invalid_data",
                                              "Replaced rare values with 'Other'",
                                              Cardinality(rare), <<c>>)))

\* the tests a categorical column passes before its rare values are replaced
RareHit(d, c, gate) ==
    /\ c \in ColSet(d)
    /\ Cardinality(Distinct(d, c)) > 1
    /\ gate
    /\ RareValues(d, c) # {}

\* the categorical columns, one after the other; gate is whether the chi-square
\* test of a column gives a p-value under the confidence level
RECURSIVE InvalidCategorical(_, _, _, _)
InvalidCategorical(cols, tr, count, gate) ==
    IF cols = <<>> THEN [tr |-> tr, count |-> count]
    ELSE
    With(RareHit(Last(tr).df, Head(cols), gate), LAMBDA hit :
    With(IF hit THEN RareValues(Last(tr).df, Head(cols)) ELSE {}, LAMBDA rare :
    InvalidCategorical(Tail(cols), ReplaceRare(tr, hit, Head(cols), rare),
                       count + Cardinality(rare), gate)))

InfCount(d, c) == Cardinality({i \in 1..NRows(d) : d.rows[i][c].k = "inf"})

\* self.df.loc[inf_mask, col] = np.nan, and its log line
ReplaceInf(tr, hit, c, n) ==
    Mut(Mut(tr,
        hit, LAMBDA a : [a EXCEPT !.df =
                            MapColumn(a.df, c, LAMBDA x : IF x.k = "inf" THEN NaN ELSE x,
                                      a.df.dtype[c])]),
        hit, LAMBDA a : AppendLog(a, LogEntry("invalid_data",
                                              "Replaced infinite values with NaN", n, <<c>>)))

RECURSIVE InvalidNumeric(_, _, _)
InvalidNumeric(cols, tr, count) ==
    IF cols = <<>> THEN [tr |-> tr, count |-> count]
    ELSE
    With(IF Head(cols) \in ColSet(Last(tr).df) THEN InfCount(Last(tr).df, Head(cols)) ELSE 0,
         LAMBDA n :
    InvalidNumeric(Tail(cols), ReplaceInf(tr, n > 0, Head(cols), n), count + n))

\* self.preprocessing_stats['invalid_data'] = ...
InvalidStats(r) ==
    Ok(Mut(r.tr, TRUE,
           LAMBDA a : SetStats(a, "invalid_data", [invalid_values_fixed |-> r.count])))

_handle_invalid_data(self, params, env) ==
    With(InvalidCategorical(self.categorical_cols, <<self>>, 0, env.gate), LAMBDA cat :
    InvalidStats(InvalidNumeric(self.numeric_cols, cat.tr, cat.count)))

-----------------------------------------------------------------------------
(* Step 4: data type mismatches *)

\* the text values pd.to_numeric converts, and what it converts them to
NumericText == {"3", "7", "5551", "20200101"}

NumericOf(x) ==
    CASE x = "3" -> 3 [] x = "7" -> 7 [] x = "5551" -> 5551 [] OTHER -> 20200101

\* pd.to_numeric(col, errors='coerce'), cell by cell
to_numeric(c) ==
    IF c.k = "str" THEN (IF c.s \in NumericText THEN Num(NumericOf(c.s)) ELSE NaN) ELSE c

\* the text values pd.to_datetime converts: dates, and, when numdate holds (the
\* parser falls back to dateutil), bare numbers too
DateText(numdate) == {"2020-01-01"} \cup (IF numdate THEN NumericText ELSE {})

\* pd.to_datetime(col, errors='coerce'), cell by cell
to_datetime(c, numdate) ==
    IF c.k = "str"
    THEN (IF c.s \in DateText(numdate) THEN [k |-> "date", s |-> c.s, v |-> 0, t |-> 0]
          ELSE NaN)
    ELSE NaN

\* converted.notna().mean() > 0.8
MostlyConverted(vals) ==
    Len(vals) > 0 /\
    Cardinality({i \in 1..Len(vals) : ~IsNull(vals[i])}) * 10 > 8 * Len(vals)

\* the column becomes numeric: the frame, the two lists, the log
ToNumeric(tr, c, vals) ==
    Mut(Mut(Mut(Mut(tr,
        TRUE, LAMBDA a : [a EXCEPT !.df = SetColumn(a.df, c, vals, "num")]),
        TRUE, LAMBDA a : [a EXCEPT !.categorical_cols = RemoveFirst(a.categorical_cols, c)]),
        TRUE, LAMBDA a : [a EXCEPT !.numeric_cols =
                             IF InSeq(c, a.numeric_cols) THEN a.numeric_cols
                             ELSE Append(a.numeric_cols, c)]),
        TRUE, LAMBDA a : AppendLog(a, LogEntry("data_type_mismatch",
                                               "Converted from object to numeric", 1, <<c>>)))

\* the column becomes a datetime: the frame, the two lists, the log
ToDatetime(tr, c, vals) ==
    Mut(Mut(Mut(Mut(tr,
        TRUE, LAMBDA a : [a EXCEPT !.df = SetColumn(a.df, c, vals, "datetime")]),
        TRUE, LAMBDA a : [a EXCEPT !.datetime_cols = Append(a.datetime_cols, c)]),
        TRUE, LAMBDA a : [a EXCEPT !.categorical_cols = RemoveFirst(a.categorical_cols, c)]),
        TRUE, LAMBDA a : AppendLog(a, LogEntry("data_type_mismatch",
                                               "Converted from object to datetime", 1, <<c>>)))

\* one column of the loop: numeric if most values convert, else datetime if most do
ConvertColumn(tr, c, asNum, numeric_converted, asDate, datetime_converted) ==
    IF asNum THEN ToNumeric(tr, c, numeric_converted)
    ELSE IF asDate THEN ToDatetime(tr, c, datetime_converted)
    ELSE tr

NumericConverted(d, c) == [i \in 1..NRows(d) |-> to_numeric(d.rows[i][c])]

DatetimeConverted(d, c, numdate) == [i \in 1..NRows(d) |-> to_datetime(d.rows[i][c], numdate)]

RECURSIVE TypeLoop(_, _, _, _, _)
TypeLoop(cols, tr, fixes, target, numdate) ==
    IF cols = <<>> THEN [tr |-> tr, fixes |-> fixes]
    ELSE
    With(Head(cols), LAMBDA c :
    With(Last(tr).df, LAMBDA d :
    With(c # target /\ d.dtype[c] = "object", LAMBDA obj :
    With(obj /\ MostlyConverted(NumericConverted(d, c)), LAMBDA asNum :
    With(obj /\ ~asNum /\ MostlyConverted(DatetimeConverted(d, c, numdate)), LAMBDA asDate :
    TypeLoop(Tail(cols),
             ConvertColumn(tr, c, asNum, NumericConverted(d, c),
                           asDate, DatetimeConverted(d, c, numdate)),
             IF asNum \/ asDate THEN fixes + 1 ELSE fixes,
             target, numdate))))))

TypeStats(r) ==
    Ok(Mut(r.tr, TRUE,
           LAMBDA a : SetStats(a, "data_type_mismatch", [columns_converted |-> r.fixes])))

_handle_data_type_mismatches(self, params, env, target) ==
    TypeStats(TypeLoop(self.df.cols, <<self>>, 0, target, env.numdate))

-----------------------------------------------------------------------------
(* Step 5: inconsistent formats *)

\* str(value): a missing value becomes the text 'nan'
AsText(c) ==
    CASE c.k = "str" -> c.s
      [] c.k = "nan" -> "nan"
      [] OTHER       -> c.s

\* '@' in text
ContainsAt(x) == x \in {"A@x", "a@x", "A@555", "a@555"}

\* re.search(r'\d{3,}', text)
HasDigitRun(x) == x \in {"555-1", "5551", "2020-01-01", "20200101", "A@555", "a@555"}

\* text.lower().strip()
LowerStrip(x) ==
    CASE x = "A@x" -> "a@x" [] x = "A@555" -> "a@555" [] x = " a" -> "a"
      [] x = "Other" -> "other" [] x = "Unknown" -> "unknown" [] OTHER -> x

\* re.sub(r'[\+\-\(\)\s]', '', text)
StripPhone(x) ==
    CASE x = "555-1" -> "5551" [] x = "2020-01-01" -> "20200101" [] x = " a" -> "a"
      [] x = "a  b" -> "ab" [] x = "a b" -> "ab" [] OTHER -> x

\* re.sub(r'\s+', ' ', text.strip())
CleanText(x) == CASE x = " a" -> "a" [] x = "a  b" -> "a b" [] OTHER -> x

AnyText(d, c, P(_)) == \E i \in 1..NRows(d) : ~IsNull(d.rows[i][c]) /\ P(AsText(d.rows[i][c]))

\* self.df[col] = self.df[col].astype(str). ... : every cell becomes a text
Restyle(tr, cond, c, f(_)) ==
    Mut(tr, cond, LAMBDA a : [a EXCEPT !.df = MapColumn(a.df, c, LAMBDA x : Str(f(AsText(x))),
                                                        "object")])

Logged(tr, cond, c, text) ==
    Mut(tr, cond, LAMBDA a : AppendLog(a, LogEntry("inconsistent_formats", text, 1, <<c>>)))

\* the email standardization of one column
FixEmail(tr, c, email) ==
    Logged(Restyle(tr, email, c, LowerStrip), email, c, "Standardized email formats")

\* the phone standardization of one column
FixPhone(tr, c, phone) ==
    Logged(Restyle(tr, phone, c, StripPhone), phone, c, "Standardized phone formats")

\* is the pattern found in the column, as the frame stands at the end of the trace
Found(tr, c, P(_)) == c \in ColSet(Last(tr).df) /\ AnyText(Last(tr).df, c, P)

\* one column of the loop: the email step, the phone step, the cleaning
FormatColumn(tr, c) ==
    With(Found(tr, c, ContainsAt), LAMBDA email :
    With(FixEmail(tr, c, email), LAMBDA tr1 :
    With(Found(tr1, c, HasDigitRun), LAMBDA phone :
    [tr    |-> Restyle(FixPhone(tr1, c, phone), c \in ColSet(Last(tr1).df), c, CleanText),
     fixes |-> (IF email THEN 1 ELSE 0) + (IF phone THEN 1 ELSE 0)])))

RECURSIVE FormatLoop(_, _, _)
FormatLoop(cols, tr, fixes) ==
    IF cols = <<>> THEN [tr |-> tr, fixes |-> fixes]
    ELSE With(FormatColumn(tr, Head(cols)), LAMBDA r :
         FormatLoop(Tail(cols), r.tr, fixes + r.fixes))

FormatStats(r) ==
    Ok(Mut(r.tr, TRUE,
           LAMBDA a : SetStats(a, "inconsistent_formats", [columns_fixed |-> r.fixes])))

_handle_inconsistent_formats(self, params, env) ==
    FormatStats(FormatLoop(self.categorical_cols, <<self>>, 0))

-----------------------------------------------------------------------------
(* Arithmetic on columns, in integers *)

\* a/c > d/b for a, d >= 0 and c, b > 0, without forming the products
RECURSIVE FracGreater(_, _, _, _)
FracGreater(a, c, d, b) ==
    IF a \div c # d \div b THEN a \div c > d \div b
    ELSE IF a % c = 0 THEN FALSE
    ELSE IF d % b = 0 THEN TRUE
    ELSE FracGreater(b, d % b, c, a % c)

\* a * b > c * d for a, b, c, d >= 0
ProductGreater(a, b, c, d) ==
    IF a = 0 \/ b = 0 THEN FALSE
    ELSE IF c = 0 \/ d = 0 THEN TRUE
    ELSE FracGreater(a, c, d, b)

SumSq(s) == SumSeq([i \in 1..Len(s) |-> s[i] * s[i]])

\* n^2 times the population variance
VarN(s) == Len(s) * SumSq(s) - SumSeq(s) * SumSeq(s)

\* the k-th smallest element
Kth(s, k) ==
    CHOOSE x \in Range(s) :
        /\ Cardinality({i \in 1..Len(s) : s[i] < x}) < k
        /\ Cardinality({i \in 1..Len(s) : s[i] <= x}) >= k

\* twice the median of a non-empty sequence
Median2(s) ==
    IF Len(s) % 2 = 1 THEN 2 * Kth(s, (Len(s) + 1) \div 2)
    ELSE Kth(s, Len(s) \div 2) + Kth(s, Len(s) \div 2 + 1)

\* some name of the list is no column of the frame: df[cols] raises KeyError
Stale(d, cols) == \E i \in 1..Len(cols) : cols[i] \notin ColSet(d)

NonFinite(d, cols, kinds) ==
    \E i \in 1..Len(cols) : \E r \in 1..NRows(d) : d.rows[r][cols[i]].k \in kinds

-----------------------------------------------------------------------------
(* Step 6: outliers *)

\* IsolationForest.fit_predict accepts neither NaN nor infinity nor an empty frame
ForestRaises(d, cols) == NRows(d) = 0 \/ NonFinite(d, cols, {"nan", "inf"})

\* Series.median(); the numbers of a column are whole before this step, so that
\* the median is a whole number of halves
MedianOf(obs) == IF obs = <<>> THEN NaN ELSE Half(Median2(obs) \div 2)

MedianCell(d, c) == MedianOf(NumVals(d, c))

\* self.df.loc[outlier_mask, col] = median_val
SetMedianEverywhere(d, c, mask, m) ==
    SetColumn(d, c, [i \in 1..NRows(d) |-> m], d.dtype[c])

\* self.df = self.df[~outlier_mask]
SetMedianDropsRows(d, c, mask, m) == KeepRows(d, (1..NRows(d)) \ mask)

SetMedian(d, c, mask, m) ==
    SetColumn(d, c, [i \in 1..NRows(d) |-> IF i \in mask THEN m ELSE d.rows[i][c]],
              d.dtype[c])

RECURSIVE OutlierLoop(_, _, _)
OutlierLoop(cols, tr, mask) ==
    IF cols = <<>> THEN tr
    ELSE OutlierLoop(Tail(cols),
                     Mut(tr, Head(cols) \in ColSet(Last(tr).df),
                         LAMBDA a : [a EXCEPT !.df =
                                        SetMedian(a.df, Head(cols), mask,
                                                  MedianCell(a.df, Head(cols)))]),
                     mask)

\* if outlier_mask.any(): the medians and the log; then the statistics
AfterForest(self, outlier_mask) ==
    Ok(
    Mut(Mut(IF outlier_mask # {}
            THEN OutlierLoop(self.numeric_cols, <<self>>, outlier_mask)
            ELSE <<self>>,
        outlier_mask # {},
            LAMBDA a : AppendLog(a, LogEntry("outliers",
                                   "Handled outlier records using Isolation Forest",
                                   Cardinality(outlier_mask), <<>>))),
        TRUE,
            LAMBDA a : SetStats(a, "outliers",
                                [outliers_detected |-> Cardinality(outlier_mask),
                                 method |-> "isolation_forest"])))

_handle_outliers(self, params, env) ==
    IF Len(self.numeric_cols) > 0 /\
       (Stale(self.df, self.numeric_cols) \/ ForestRaises(self.df, self.numeric_cols))
    THEN Raise(<<self>>)
    ELSE AfterForest(self, IF Len(self.numeric_cols) > 0
                           THEN env.flagged \cap (1..NRows(self.df)) ELSE {})

-----------------------------------------------------------------------------
(* Step 7: cardinality *)

FirstIndex(d, c, x) == CHOOSE i \in 1..NRows(d) : d.rows[i][c] = x /\
                                                  \A j \in 1..(i-1) : d.rows[j][c] # x

\* x comes before y in value_counts(): more frequent, or as frequent and seen first
CountsBefore(d, c, x, y) ==
    \/ CountOf(d, c, x) > CountOf(d, c, y)
    \/ CountOf(d, c, x) = CountOf(d, c, y) /\ FirstIndex(d, c, x) < FirstIndex(d, c, y)

\* value_counts().head(n + 1).index
TopCategoriesOneMore(d, c, n) ==
    {x \in Distinct(d, c) :
        Cardinality({y \in Distinct(d, c) : CountsBefore(d, c, y, x)}) < n + 1}

\* value_counts().head(n).index
TopCategories(d, c, n) ==
    {x \in Distinct(d, c) :
        Cardinality({y \in Distinct(d, c) : CountsBefore(d, c, y, x)}) < n}

\* the values outside the top categories become 'Other', and the log line
ReduceCardinality(tr, hit, c, top, n) ==
    Mut(Mut(tr,
        hit, LAMBDA a : [a EXCEPT !.df =
                            MapColumn(a.df, c,
                                      LAMBDA x : IF x \in top THEN x ELSE Str("Other"),
                                      "object")]),
        hit, LAMBDA a : AppendLog(a, LogEntry("cardinality", "Reduced cardinality",
                                              n, <<c>>)))

RECURSIVE CardinalityLoop(_, _, _, _)
CardinalityLoop(cols, tr, high, maxc) ==
    IF cols = <<>> THEN [tr |-> tr, high |-> high]
    ELSE
    With(Head(cols), LAMBDA c :
    With(Last(tr).df, LAMBDA d :
    With(c \in ColSet(d) /\ Cardinality(Distinct(d, c)) > maxc, LAMBDA hit :
    CardinalityLoop(Tail(cols),
                    ReduceCardinality(tr, hit, c, TopCategories(d, c, maxc),
                                      Cardinality(Distinct(d, c))),
                    IF hit THEN Append(high, c) ELSE high, maxc))))

CardinalityStats(r) ==
    Ok(Mut(r.tr, TRUE,
           LAMBDA a : SetStats(a, "cardinality",
                               [high_cardinality_columns |-> Len(r.high),
                                columns_modified |-> r.high])))

_handle_cardinality(self, params, env) ==
    CardinalityStats(CardinalityLoop(self.categorical_cols, <<self>>, <<>>,
                                     ParamGet(params, "max_cardinality", 100)))

-----------------------------------------------------------------------------
(* Step 8: low variance *)

\* the variance of the values exceeds threshold percent
VarianceOver(obs, thr) == obs # <<>> /\ VarN(obs) * 25 > thr * Len(obs) * Len(obs)

\* VarianceThreshold.get_support(): the variance (of the values that are present)
\* exceeds threshold percent
VarianceAbove(d, c, thr) == VarianceOver(NumVals(d, c), thr)

\* VarianceThreshold.fit raises on infinity, on an empty frame and when no feature
\* meets the threshold
VarianceRaises(d, cols, thr) ==
    \/ NRows(d) = 0
    \/ NonFinite(d, cols, {"inf"})
    \/ \A i \in 1..Len(cols) : ~VarianceAbove(d, cols[i], thr)

\* if removed_features: drop them from the frame and from the list, log; statistics
RemoveLowVariance(self, removed_features) ==
    Ok(
    Mut(Mut(Mut(Mut(<<self>>,
        removed_features # <<>>,
            LAMBDA a : [a EXCEPT !.df = DropColumns(a.df, Range(removed_features))]),
        removed_features # <<>>,
            LAMBDA a : [a EXCEPT !.numeric_cols = Without(a.numeric_cols,
                                                          Range(removed_features))]),
        removed_features # <<>>,
            LAMBDA a : AppendLog(a, LogEntry("low_variance", "Removed low variance features",
                                             Len(removed_features), removed_features))),
        TRUE,
            LAMBDA a : SetStats(a, "low_variance",
                                [features_removed |-> Len(removed_features),
                                 removed_features |-> removed_features])))

LowVariance(self, thr) ==
    IF Len(self.numeric_cols) > 0 /\
       (Stale(self.df, self.numeric_cols)
          \/ VarianceRaises(self.df, self.numeric_cols, thr))
    THEN Raise(<<self>>)
    ELSE RemoveLowVariance(self,
            SelectSeq(self.numeric_cols, LAMBDA c : ~VarianceAbove(self.df, c, thr)))

_handle_low_variance_features(self, params, env) ==
    LowVariance(self, ParamGet(params, "threshold", 1))

-----------------------------------------------------------------------------
(* Step 9: feature correlation *)

\* n times the sum of products minus the product of sums
CovN(xs, ys) ==
    Len(xs) * SumSeq([j \in 1..Len(xs) |-> xs[j] * ys[j]]) - SumSeq(xs) * SumSeq(ys)

\* the rows where both columns are present
BothPresent(d, x, y) ==
    SelectSeq([i \in 1..NRows(d) |-> i],
              LAMBDA i : ~IsNull(d.rows[i][x]) /\ ~IsNull(d.rows[i][y]))

ValuesAt(d, c, idx) == [j \in 1..Len(idx) |-> d.rows[idx[j]][c].v]

Correlated(xs, ys, thr) ==
    /\ VarN(xs) > 0
    /\ VarN(ys) > 0
    /\ ProductGreater(CovN(xs, ys) * CovN(xs, ys), 10000, thr * thr, VarN(xs) * VarN(ys))

\* abs(Pearson correlation) of two columns over the rows where both are present
\* exceeds threshold percent; an undefined correlation exceeds nothing
HighCorrelation(d, x, y, thr) ==
    With(BothPresent(d, x, y), LAMBDA idx :
        /\ \A j \in 1..Len(idx) : d.rows[idx[j]][x].k = "num" /\ d.rows[idx[j]][y].k = "num"
        /\ Correlated(ValuesAt(d, x, idx), ValuesAt(d, y, idx), thr))

\* the positions of the columns with a high correlation to a column before them
CorrelatedPositionsBoth(d, cols, thr) ==
    SelectSeq([j \in 1..Len(cols) |-> j],
              LAMBDA j : \E i \in (1..Len(cols)) \ {j} :
                            HighCorrelation(d, cols[i], cols[j], thr))

CorrelatedPositions(d, cols, thr) ==
    SelectSeq([j \in 1..Len(cols) |-> j],
              LAMBDA j : \E i \in 1..(j-1) : HighCorrelation(d, cols[i], cols[j], thr))

At(cols, idx) == [m \in 1..Len(idx) |-> cols[idx[m]]]

\* the columns with a high correlation to a column before them
CorrelatedToEarlier(d, cols, thr) == At(cols, CorrelatedPositions(d, cols, thr))

\* if to_remove: drop them from the frame and from the list, log; statistics
RemoveCorrelated(self, to_remove) ==
    Ok(
    Mut(Mut(Mut(Mut(<<self>>,
        to_remove # <<>>,
            LAMBDA a : [a EXCEPT !.df = DropColumns(a.df, Range(to_remove))]),
        to_remove # <<>>,
            LAMBDA a : [a EXCEPT !.numeric_cols = Without(a.numeric_cols, Range(to_remove))]),
        to_remove # <<>>,
            LAMBDA a : AppendLog(a, LogEntry("feature_correlation",
                                             "Removed highly correlated features",
                                             Len(to_remove), to_remove))),
        TRUE,
            LAMBDA a : SetStats(a, "feature_correlation",
                                [features_removed |-> Len(to_remove),
                                 removed_features |-> to_remove])))

_handle_feature_correlation(self, params, env) ==
    IF Len(self.numeric_cols) > 1 /\ Stale(self.df, self.numeric_cols)
    THEN Raise(<<self>>)
    ELSE RemoveCorrelated(self,
            IF Len(self.numeric_cols) > 1
            THEN CorrelatedToEarlier(self.df, self.numeric_cols,
                                     ParamGet(params, "threshold", 90))
            ELSE <<>>)

-----------------------------------------------------------------------------
(* Step 10: mean-median drift *)

DriftOver(obs, thr) ==
    /\ obs # <<>>
    /\ SumSeq(obs) # 0
    /\ Abs(2 * SumSeq(obs) - Len(obs) * Median2(obs)) * 100 > 2 * thr * Abs(SumSeq(obs))

\* abs((mean - median) / mean) * 100 > threshold * 100, for a column whose present
\* values are all finite; an undefined drift exceeds nothing
DriftAbove(d, c, thr) == ~NonFinite(d, <<c>>, {"inf"}) /\ DriftOver(NumVals(d, c), thr)

\* (df[col] >= 0).all()
AllNonNegative(d, c) == \A i \in 1..NRows(d) : d.rows[i][c].k \in {"num", "inf"} /\
                                               (d.rows[i][c].k = "num" => d.rows[i][c].v >= 0)

\* (df[col] > 0).all()
AllPositive(d, c) == \A i \in 1..NRows(d) : d.rows[i][c].k \in {"num", "inf"} /\
                                            (d.rows[i][c].k = "num" => d.rows[i][c].v > 0)

\* np.log1p(x)
log1p(c) == IF c.k = "num" THEN [c EXCEPT !.t = c.t + 1] ELSE c

\* self.df[col] = np.log1p(self.df[col]), and the log line
LogTransform(tr, apply, c) ==
    Mut(Mut(tr,
        apply, LAMBDA a : [a EXCEPT !.df = MapColumn(a.df, c, log1p, a.df.dtype[c])]),
        apply, LAMBDA a : AppendLog(a, LogEntry("mean_median_drift",
                                                "Applied log transformation", 1, <<c>>)))

RECURSIVE DriftLoop(_, _, _, _)
DriftLoop(cols, tr, drift_columns, thr) ==
    IF cols = <<>> THEN [tr |-> tr, drift_columns |-> drift_columns]
    ELSE
    With(Head(cols), LAMBDA c :
    With(Last(tr).df, LAMBDA d :
    With(c \in ColSet(d) /\ DriftAbove(d, c, thr), LAMBDA drift :
    DriftLoop(Tail(cols), LogTransform(tr, drift /\ AllPositive(d, c), c),
              IF drift THEN Append(drift_columns, c) ELSE drift_columns, thr))))

DriftStats(r) ==
    Ok(Mut(r.tr, TRUE,
           LAMBDA a : SetStats(a, "mean_median_drift",
                               [columns_with_drift |-> Len(r.drift_columns),
                                transformed_columns |-> r.drift_columns])))

_handle_mean_median_drift(self, params, env) ==
    DriftStats(DriftLoop(self.numeric_cols, <<self>>, <<>>,
                         ParamGet(params, "threshold", 20)))

-----------------------------------------------------------------------------
(* Step 11: range violations *)

\* 100 * ln(1 + h/2) for h halves, rounded
Ln1pTable ==
    <<41, 69, 92, 110, 125, 139, 150, 161, 170, 179, 187, 195, 201, 208,
      214, 220, 225, 230, 235, 240>>

Ln1pCenti(h) ==
    IF h <= 0 THEN 0
    ELSE IF h <= Len(Ln1pTable) THEN Ln1pTable[h]
    ELSE Ln1pTable[Len(Ln1pTable)] + h

\* the value of a cell on the scale of its column (a column is transformed as a whole)
Scaled(c) == IF c.t = 0 THEN c.v ELSE Ln1pCenti(c.v)

ScaledVals(d, c) ==
    LET idx == SelectSeq([i \in 1..NRows(d) |-> i], LAMBDA i : d.rows[i][c].k = "num")
    IN  [j \in 1..Len(idx) |-> Scaled(d.rows[idx[j]][c])]

\* n times the distance of a value from the mean lies on the given side and is more
\* than three sample standard deviations
Beyond(dev, side, n, varn) ==
    /\ (IF side = 1 THEN dev > 0 ELSE dev < 0)
    /\ dev * dev * (n - 1) > 9 * n * varn

OutOfRangeOf(d, c, side, obs) ==
    {i \in 1..NRows(d) :
        /\ Len(obs) > 1
        /\ ~NonFinite(d, <<c>>, {"inf"})
        /\ d.rows[i][c].k = "num"
        /\ Beyond(Len(obs) * Scaled(d.rows[i][c]) - SumSeq(obs), side, Len(obs), VarN(obs))}

\* the rows whose value lies below mean - 3 * std (side -1) or above mean + 3 * std
\* (side 1), std being the sample standard deviation
OutOfRange(d, c, side) == OutOfRangeOf(d, c, side, ScaledVals(d, c))

\* a value capped to a bound
Capped(side) == [k |-> "num", s |-> IF side = 1 THEN "upper_bound" ELSE "lower_bound",
                 v |-> 0, t |-> 0]

\* self.df.loc[self.df[col] < lower_bound, col] = lower_bound, and the like
Cap(d, c, rows, side) ==
    SetColumn(d, c, [i \in 1..NRows(d) |-> IF i \in rows THEN Capped(side) ELSE d.rows[i][c]],
              d.dtype[c])

\* if violations > 0: cap below, cap above, log
FixRange(tr, any, c, low, high) ==
    Mut(Mut(Mut(tr,
        any, LAMBDA a : [a EXCEPT !.df = Cap(a.df, c, low, -1)]),
        any, LAMBDA a : [a EXCEPT !.df = Cap(a.df, c, high, 1)]),
        any, LAMBDA a : AppendLog(a, LogEntry("range_violations", "Fixed range violations",
                                              Cardinality(low \cup high), <<c>>)))

RECURSIVE RangeLoop(_, _, _)
RangeLoop(cols, tr, fixed) ==
    IF cols = <<>> THEN [tr |-> tr, fixed |-> fixed]
    ELSE
    With(Head(cols), LAMBDA c :
    With(Last(tr).df, LAMBDA d :
    With(IF c \in ColSet(d) THEN OutOfRange(d, c, -1) ELSE {}, LAMBDA low :
    With(IF c \in ColSet(d) THEN OutOfRange(d, c, 1) ELSE {}, LAMBDA high :
    RangeLoop(Tail(cols), FixRange(tr, low \cup high # {}, c, low, high),
              fixed + Cardinality(low \cup high))))))

RangeStats(r) ==
    Ok(Mut(r.tr, TRUE,
           LAMBDA a : SetStats(a, "range_violations", [violations_fixed |-> r.fixed])))

_handle_range_violations(self, params, env) ==
    RangeStats(RangeLoop(self.numeric_cols, <<self>>, 0))

-----------------------------------------------------------------------------
(* Step 12: class imbalance *)

\* value_counts() of the target: how often its most and least frequent values occur
ClassCounts(d, c) == {CountOf(d, c, x) : x \in Distinct(d, c)}

SetMin(S) == CHOOSE x \in S : \A y \in S : x <= y

SetMax(S) == CHOOSE x \in S : \A y \in S : x >= y

\* the texts of the values, in sorted order
SortedTexts(vals) ==
    At(TokenOrder, SelectSeq([i \in 1..Len(TokenOrder) |-> i],
                             LAMBDA i : \E x \in vals : x.s = TokenOrder[i]))

\* the categories of an object column in sorted order, without the first
DummyValues(d, c) ==
    IF Distinct(d, c) = {} THEN <<>>
    ELSE SortedTexts(Distinct(d, c) \ {FirstSorted(Distinct(d, c))})

\* the indicator columns of one object column
IndicatorsSameName(c, values) ==
    [j \in 1..Len(values) |-> [name |-> c, from |-> c, value |-> values[j]]]

Indicators(c, values) ==
    [j \in 1..Len(values) |-> [name |-> c \o "_" \o values[j], from |-> c,
                               value |-> values[j]]]

\* pd.get_dummies(X, drop_first=True): the columns of the encoded frame, each with
\* the column it comes from and the value it indicates ("" for a column kept as is)
RECURSIVE DummyColumns(_, _)
DummyColumns(d, cols) ==
    IF cols = <<>> THEN <<>>
    ELSE (IF d.dtype[Head(cols)] = "object"
          THEN Indicators(Head(cols), DummyValues(d, Head(cols)))
          ELSE <<[name |-> Head(cols), from |-> Head(cols), value |-> ""]>>)
         \o DummyColumns(d, Tail(cols))

\* the columns kept as they are come first, then the indicator columns
Dummies(d, feats) ==
    DummyColumns(d, SelectSeq(feats, LAMBDA c : d.dtype[c] # "object"))
    \o DummyColumns(d, SelectSeq(feats, LAMBDA c : d.dtype[c] = "object"))

DummyOf(dummies, n) == dummies[CHOOSE j \in 1..Len(dummies) : dummies[j].name = n]

DummyCell(row, m) ==
    IF m.value = "" THEN row[m.from]
    ELSE IF row[m.from] = Str(m.value) THEN Num(1) ELSE Num(0)

EncodedFrame(d, target, dummies, names) ==
    [cols  |-> names,
     dtype |-> [n \in Range(names) |->
                   IF n = target THEN d.dtype[target]
                   ELSE IF DummyOf(dummies, n).value = "" THEN d.dtype[n] ELSE "bool"],
     rows  |-> [i \in 1..NRows(d) |->
                   [n \in Range(names) |->
                       IF n = target THEN d.rows[i][target]
                       ELSE DummyCell(d.rows[i], DummyOf(dummies, n))]]]

\* the encoded features and the target, as a frame
Encoded(d, target) ==
    With(Dummies(d, Without(d.cols, {target})), LAMBDA dummies :
    EncodedFrame(d, target, dummies,
                 [j \in 1..Len(dummies) |-> dummies[j].name] \o <<target>>))

\* SMOTE(k_neighbors=5).fit_resample raises on a missing or infinite feature, on a
\* column that is no number, on a missing target value, on a frame without features,
\* and when a class it must enlarge has no more than 5 samples
SmoteRaises(e, target) ==
    \/ Without(e.cols, {target}) = <<>>
    \/ NonFinite(e, Without(e.cols, {target}), {"nan", "inf", "date", "str"})
    \/ HasNull(e, target)
    \/ \E x \in Distinct(e, target) :
          /\ CountOf(e, target, x) < SetMax(ClassCounts(e, target))
          /\ CountOf(e, target, x) <= 5

\* the class seen first
FirstSeen(e, target, classes) ==
    CHOOSE y \in classes :
        \A z \in classes : FirstIndex(e, target, y) <= FirstIndex(e, target, z)

\* the samples SMOTE adds for one class: as many as it lacks to the largest class,
\* each between two samples of the class (here: at the first of them)
RECURSIVE Synthetic(_, _, _)
Synthetic(e, target, classes) ==
    IF classes = {} THEN <<>>
    ELSE With(FirstSeen(e, target, classes), LAMBDA x :
         [j \in 1..(SetMax(ClassCounts(e, target)) - CountOf(e, target, x)) |->
             e.rows[FirstIndex(e, target, x)]]
         \o Synthetic(e, target, classes \ {x}))

\* the target is categorical and its classes are out of balance
Imbalanced(d, target) ==
    /\ target # ""
    /\ target \in ColSet(d)
    /\ (d.dtype[target] = "object" \/ Cardinality(Distinct(d, target)) < 10)
    /\ Distinct(d, target) # {}
    /\ 2 * SetMin(ClassCounts(d, target)) < SetMax(ClassCounts(d, target))

\* the resampled frame replaces self.df; log; statistics
Resample(self, e, target, original_ratio, original_shape) ==
    Ok(
    Mut(Mut(Mut(<<self>>,
        TRUE, LAMBDA a : [a EXCEPT !.df = [e EXCEPT !.rows =
                             e.rows \o Synthetic(e, target, Distinct(e, target))]]),
        TRUE, LAMBDA a : AppendLog(a, LogEntry("class_imbalance",
                                               "Applied SMOTE to balance target variable",
                                               NRows(a.df), <<>>))),
        TRUE, LAMBDA a : SetStats(a, "class_imbalance",
                                  [original_ratio |-> original_ratio,
                                   method |-> "smote",
                                   original_shape |-> original_shape,
                                   new_shape |-> NRows(a.df)])))

Balance(self, e, target) ==
    IF SmoteRaises(e, target) THEN Raise(<<self>>)
    ELSE Resample(self, e, target,
                  <<SetMin(ClassCounts(self.df, target)), SetMax(ClassCounts(self.df, target))>>,
                  NRows(self.df))

_handle_class_imbalance(self, params, env, target) ==
    IF ~Imbalanced(self.df, target) THEN Ok(<<self>>)
    ELSE Balance(self, Encoded(self.df, target), target)

-----------------------------------------------------------------------------
(* The report *)

\* self.preprocessing_stats.get(key, {}).get(field, 0)
StatGet(st, key, field) ==
    IF key \in DOMAIN st /\ field \in DOMAIN st[key] THEN st[key][field] ELSE 0

_generate_preprocessing_report(self, original) ==
    SetStats(self, "summary",
             [original_shape |-> Shape(original),
              final_shape |-> Shape(self.df),
              rows_changed |-> NRows(original) - NRows(self.df),
              columns_changed |-> NCols(original) - NCols(self.df),
              preprocessing_steps |-> Len(self.preprocessing_log),
              total_changes |-> StatGet(self.preprocessing_stats, "missing_values", "before")
                              + StatGet(self.preprocessing_stats, "duplicates", "removed")
                              + StatGet(self.preprocessing_stats, "outliers",
                                        "outliers_detected")
                              + StatGet(self.preprocessing_stats, "range_violations",
                                        "violations_fixed")])

get_preprocessing_report(self) ==
    [preprocessing_log |-> self.preprocessing_log,
     preprocessing_stats |-> self.preprocessing_stats,
     final_dataset_info |->
        [shape |-> Shape(self.df),
         columns |-> self.df.cols,
         numeric_columns |-> self.numeric_cols,
         categorical_columns |-> self.categorical_cols,
         datetime_columns |-> self.datetime_cols,
         missing_values |-> NullCount(self.df),
         data_types |-> self.df.dtype]]

-----------------------------------------------------------------------------
(* One step of preprocess_all *)

\* what the library calls of a step may do, as far as the model leaves it open
EnvChoices(key) ==
    [impute  : IF key = "missing_values" THEN {"lo", "hi"} ELSE {"lo"},
     gate    : IF key = "invalid_data" THEN BOOLEAN ELSE {FALSE},
     numdate : IF key = "data_type_mismatch" THEN BOOLEAN ELSE {FALSE},
     flagged : IF key = "outliers" THEN SUBSET (1..MaxFlagged) ELSE {{}}]

\* the library calls are deterministic (random_state=42): what they return in a step,
\* given what they return in the four steps that call them
OracleEnv(e, key) ==
    [impute  |-> IF key = "missing_values" THEN e.impute ELSE "lo",
     gate    |-> IF key = "invalid_data" THEN e.gate ELSE FALSE,
     numdate |-> IF key = "data_type_mismatch" THEN e.numdate ELSE FALSE,
     flagged |-> IF key = "outliers" THEN e.flagged ELSE {}]

\* a step that calls no library
NoEnv == [impute |-> "lo", gate |-> FALSE, numdate |-> FALSE, flagged |-> {}]

\* every handler's body is inside try: ... except Exception
StageCatchesNothing(key) == FALSE

StageCatches(key) == TRUE

\* except Exception as e: logger.error(...)
ExceptHandlerWritesStats(self, key) == SetStats(self, key, [error |-> 1])

ExceptHandler(self, key) == self

\* the handler's body, given its run res: it ends normally, or it raises, be it for
\* what it finds in the data or for a fault of the environment (a MemoryError, say)
\* before the mutation at the given point (0: no fault)
RunBody(res, key, point) ==
    IF point > 0 /\ point < Len(res.trace)
    THEN [self |-> ExceptHandler(res.trace[point], key), outcome |-> "raised"]
    ELSE IF res.raised
    THEN [self |-> ExceptHandler(Last(res.trace), key), outcome |-> "raised"]
    ELSE [self |-> Last(res.trace), outcome |-> "completed"]

\* a step of preprocess_all that ignores the factor's switch
StepResultNoSwitch(key, self, cfg, res, point) == RunBody(res, key, point)

\* if not cfg or cfg.get(key, True): self._handle_...(), which returns at once when
\* the factor's configuration is None; res is the run of the handler's body
StepResult(key, self, cfg, res, point) ==
    IF ~Dispatch(cfg, key) THEN [self |-> self, outcome |-> "disabled"]
    ELSE IF _get_factor_config(cfg, key).none THEN [self |-> self, outcome |-> "disabled"]
    ELSE RunBody(res, key, point)

Self == SelfOf(df, numeric_cols, categorical_cols, datetime_cols, preprocessing_log,
               preprocessing_stats)

\* cfg, as the handler of the k-th step reads it
FactorParams(k) == _get_factor_config(config, StageOrder[k]).params

NoFrame == [cols |-> <<>>, dtype |-> NoParams, rows |-> <<>>]

\* return self.df
ReturnDf(self, original) == [kind |-> "df", df |-> self.df]

\* except Exception as e: ... return self.original_df
OuterReturnNothing(self, original) == [kind |-> "None", df |-> NoFrame]

OuterReturn(self, original) == [kind |-> "original_df", df |-> original]

Event(ev, key) == [ev |-> ev, stage |-> key]

\* the events of a step: none when it is switched off
StepEvents(key, outcome) ==
    IF outcome = "disabled" THEN <<>>
    ELSE <<Event("start", key), Event(IF outcome = "raised" THEN "raise" ELSE "finish", key)>>

\* the k-th step of preprocess_all, res being the run of its handler's body
\* self.df = df: the frame the handlers write is the frame it was taken from
SameFrame(source, written) == written

\* self.df = df.copy(); self.original_df = df.copy(): the frame the handlers write
\* is a copy, and the frame it was copied from keeps its value whatever is written
CopiedFrame(source, written) == source

Step(k, point, env, res) ==
    /\ pc = k
    /\ k \in 1..NStages
    /\ ~DispatchRaises(config)
    /\ point > 0 => ~injected /\ ~oracle.fixed
    /\ oracle.fixed => env = OracleEnv(oracle.env, StageOrder[k])
    /\ \E r \in {StepResult(StageOrder[k], Self, config, res, point)} :
         /\ point > 0 => r # StepResult(StageOrder[k], Self, config, res, 0)
         /\ injected' = (injected \/ point > 0)
         /\ df' = r.self.df
         /\ input_df' = CopiedFrame(input_df, r.self.df)
         /\ original_df' = CopiedFrame(original_df, r.self.df)
         /\ numeric_cols' = r.self.numeric_cols
         /\ categorical_cols' = r.self.categorical_cols
         /\ datetime_cols' = r.self.datetime_cols
         /\ preprocessing_log' = r.self.preprocessing_log
         /\ preprocessing_stats' = r.self.preprocessing_stats
         /\ status' = [status EXCEPT ![StageOrder[k]] = r.outcome]
         /\ events' = events \o StepEvents(StageOrder[k], r.outcome)
         /\ pre' = [key |-> StageOrder[k], self |-> Self,
                     env |-> IF r.outcome = "disabled" THEN NoEnv ELSE env]
         /\ IF r.outcome = "raised" /\ ~StageCatches(StageOrder[k])
            THEN /\ pc' = NStages + 3
                 /\ returned' = OuterReturn(r.self, original_df)
            ELSE /\ pc' = k + 1
                 /\ UNCHANGED returned
    /\ UNCHANGED <<raw_config, target_col, config, report, peer, oracle>>

Step1 ==
    \E env \in EnvChoices(StageOrder[1]), point \in 0..MaxPoint :
        Step(1, point, env, _handle_missing_values(Self, FactorParams(1), env))

Step2 ==
    \E env \in EnvChoices(StageOrder[2]), point \in 0..MaxPoint :
        Step(2, point, env, _handle_duplicates(Self, FactorParams(2), env))

Step3 ==
    \E env \in EnvChoices(StageOrder[3]), point \in 0..MaxPoint :
        Step(3, point, env, _handle_invalid_data(Self, FactorParams(3), env))

Step4 ==
    \E env \in EnvChoices(StageOrder[4]), point \in 0..MaxPoint :
        Step(4, point, env, _handle_data_type_mismatches(Self, FactorParams(4), env, target_col))

Step5 ==
    \E env \in EnvChoices(StageOrder[5]), point \in 0..MaxPoint :
        Step(5, point, env, _handle_inconsistent_formats(Self, FactorParams(5), env))

Step6 ==
    \E env \in EnvChoices(StageOrder[6]), point \in 0..MaxPoint :
        Step(6, point, env, _handle_outliers(Self, FactorParams(6), env))

Step7 ==
    \E env \in EnvChoices(StageOrder[7]), point \in 0..MaxPoint :
        Step(7, point, env, _handle_cardinality(Self, FactorParams(7), env))

Step8 ==
    \E env \in EnvChoices(StageOrder[8]), point \in 0..MaxPoint :
        Step(8, point, env, _handle_low_variance_features(Self, FactorParams(8), env))

Step9 ==
    \E env \in EnvChoices(StageOrder[9]), point \in 0..MaxPoint :
        Step(9, point, env, _handle_feature_correlation(Self, FactorParams(9), env))

Step10 ==
    \E env \in EnvChoices(StageOrder[10]), point \in 0..MaxPoint :
        Step(10, point, env, _handle_mean_median_drift(Self, FactorParams(10), env))

Step11 ==
    \E env \in EnvChoices(StageOrder[11]), point \in 0..MaxPoint :
        Step(11, point, env, _handle_range_violations(Self, FactorParams(11), env))

Step12 ==
    \E env \in EnvChoices(StageOrder[12]), point \in 0..MaxPoint :
        Step(12, point, env, _handle_class_imbalance(Self, FactorParams(12), env, target_col))

\* the test before a step raises (the configuration is no mapping): the outer
\* except returns the original frame
OuterExcept ==
    /\ pc \in 1..NStages
    /\ DispatchRaises(config)
    /\ pc' = NStages + 3
    /\ returned' = OuterReturn(Self, original_df)
    /\ UNCHANGED <<input_df, raw_config, target_col, config, df, original_df, numeric_cols,
                   categorical_cols, datetime_cols, preprocessing_log,
                   preprocessing_stats, report, injected, status, events, pre, peer,
                   oracle>>

GenerateReport ==
    /\ pc = NStages + 1
    /\ preprocessing_stats' = _generate_preprocessing_report(Self, original_df).preprocessing_stats
    /\ events' = Append(events, Event("report", "summary"))
    /\ pc' = NStages + 2
    /\ UNCHANGED <<input_df, raw_config, target_col, config, df, original_df, numeric_cols,
                   categorical_cols, datetime_cols, preprocessing_log, returned, report,
                   injected, status, pre, peer, oracle>>

Return ==
    /\ pc = NStages + 2
    /\ returned' = ReturnDf(Self, original_df)
    /\ pc' = NStages + 3
    /\ UNCHANGED <<input_df, raw_config, target_col, config, df, original_df, numeric_cols,
                   categorical_cols, datetime_cols, preprocessing_log,
                   preprocessing_stats, report, injected, status, events, pre, peer,
                   oracle>>

\* the caller asks for the report once preprocess_all has returned
GetReport ==
    /\ pc = NStages + 3
    /\ report' = [made |-> TRUE, body |-> get_preprocessing_report(Self)]
    /\ pc' = NStages + 4
    /\ UNCHANGED <<input_df, raw_config, target_col, config, df, original_df, numeric_cols,
                   categorical_cols, datetime_cols, preprocessing_log,
                   preprocessing_stats, returned, injected, status, events, pre, peer,
                   oracle>>

Next ==
    \/ Step1 \/ Step2 \/ Step3 \/ Step4 \/ Step5 \/ Step6
    \/ Step7 \/ Step8 \/ Step9 \/ Step10 \/ Step11 \/ Step12
    \/ OuterExcept \/ GenerateReport \/ Return \/ GetReport

-----------------------------------------------------------------------------
(* The inputs *)

\* a frame of the columns x, y (numbers), c (text) and t, from its four columns
MkFrame(x, y, c, t, ttype) ==
    [cols  |-> <<"x", "y", "c", "t">>,
     dtype |-> [x |-> "num", y |-> "num", c |-> "object", t |-> ttype],
     rows  |-> [i \in 1..Len(x) |-> [x |-> x[i], y |-> y[i], c |-> c[i], t |-> t[i]]]]

\* a frame of four numeric columns
MkNumeric(x, y, c, t) ==
    [cols  |-> <<"x", "y", "c", "t">>,
     dtype |-> [x |-> "num", y |-> "num", c |-> "num", t |-> "num"],
     rows  |-> [i \in 1..Len(x) |-> [x |-> x[i], y |-> y[i], c |-> c[i], t |-> t[i]]]]

X_plain   == <<Num(1), Num(1), Num(3), Num(4), Num(5)>>
X_sparse  == <<Num(1), Num(1), NaN, NaN, NaN>>
X_inf     == <<Num(1), Num(1), Num(3), Inf, NaN>>
X_gap     == <<Num(1), Num(1), Num(3), NaN, Num(5)>>
X_clean   == <<Num(1), Num(2), Num(3), Num(4), Num(5)>>
X_near    == <<Num(1), Near(1), Num(3), Num(4), Num(5)>>

Y_double  == <<Num(2), Num(2), Num(6), Num(8), Num(10)>>
Y_const   == <<Num(7), Num(7), Num(7), Num(7), Num(7)>>
Y_sparse  == <<NaN, NaN, NaN, Num(1), Num(2)>>
Y_skewed  == <<Num(1), Num(1), Num(1), Num(2), Num(9)>>
Y_even    == <<Num(2), Num(4), Num(3), Num(4), Num(2)>>

C_plain   == <<Str("a"), Str("a"), Str("b"), Str("a"), Str("b")>>
C_messy   == <<Str(" a"), Str(" a"), NaN, Str("A@x"), Str("555-1")>>
C_digits  == <<Str("3"), Str("3"), Str("7"), Str("3"), Str("7")>>
C_alt     == <<Str("a"), Str("b"), Str("a"), Str("b"), Str("a")>>
C_mostly  == <<Str("3"), Str("3"), Str("7"), Str("a"), Str("3")>>
C_flags   == <<Num(1), Num(1), Num(0), Num(1), Num(0)>>

T_text    == <<Str("a"), Str("a"), Str("b"), Str("b"), Str("a")>>
T_rare    == <<Num(0), Num(0), Num(0), Num(0), Num(1)>>
T_bal     == <<Str("a"), Str("b"), Str("b"), Str("a"), Str("b")>>
T_gap     == <<Str("a"), Str("a"), NaN, Str("b"), Str("a")>>

\* nineteen distinct rows, three categories in c, and a target of 6 'b' and 13 'a'
X_long    == [i \in 1..19 |-> Num(i)]
Y_long    == [i \in 1..19 |-> Num(((7 * i) % 5) + 1)]
C_long    == [i \in 1..19 |-> Str(<<"a", "b", "x">>[(i % 3) + 1])]
T_long    == [i \in 1..19 |-> Str(IF i <= 6 THEN "b" ELSE "a")]

\* sixty-seven distinct rows, and a numeric target of ten classes: thirteen rows of
\* class 0 and six rows of each of the classes 1 to 9
X_wide    == [i \in 1..67 |-> Num((i % 7) + 1)]
Y_wide    == [i \in 1..67 |-> Num((i % 4) + 1)]
C_wide    == [i \in 1..67 |-> Str(<<"a", "b", "x">>[(i % 3) + 1])]
T_ten     == [i \in 1..67 |-> Num(IF i <= 13 THEN 0 ELSE ((i - 14) % 9) + 1)]

\* frames that run under every configuration
CoreDatasets ==
    {MkFrame(X_plain,  Y_double, C_plain,  T_text, "object"),
     MkFrame(X_inf,    Y_sparse, C_messy,  T_text, "object"),
     MkFrame(X_gap,    Y_const,  C_messy,  T_rare, "num"),
     MkFrame(X_sparse, Y_skewed, C_digits, T_text, "object"),
     MkFrame(X_plain,  Y_skewed, C_plain,  T_rare, "num"),
     MkFrame(X_gap,    Y_double, C_digits, T_text, "object")}

\* frames that run under the default configuration
CaseDatasets ==
    {MkFrame(X_long,   Y_long,   C_long,   T_long, "object"),
     MkFrame(X_gap,    Y_double, C_plain,  T_gap,  "object"),
     MkFrame(X_clean,  Y_double, C_mostly, T_bal,  "object"),
     MkFrame(X_clean,  Y_even,   C_alt,    T_bal,  "object"),
     MkNumeric(X_near, Y_double, C_flags,  T_rare),
     MkFrame(X_near,   Y_double, C_plain,  T_text, "object"),
     MkFrame(X_wide,   Y_wide,   C_wide,   T_ten,  "num"),
     MkFrame(Append(X_long, X_long[19]), Append(Y_long, Y_long[19]),
             Append(C_long, C_long[19]), Append(T_long, T_long[19]), "object")}

Datasets == CoreDatasets \cup CaseDatasets

\* the target column the caller names: t, or none
Targets == {"t", ""}

\* a dict for one factor that sets a parameter of its own
Override(key) ==
    CASE key = "missing_values"      -> [method |-> 0, max_missing_threshold |-> 10]
      [] key = "duplicates"          -> [keep |-> 2]
      [] key = "outliers"            -> [contamination |-> 20]
      [] key = "cardinality"         -> [max_cardinality |-> 1]
      [] key = "feature_correlation" -> [threshold |-> 100]
      [] key = "low_variance"        -> [threshold |-> 400]
      [] key = "mean_median_drift"   -> [threshold |-> 90]
      [] OTHER                       -> [auto |-> 1]

\* the values a factor's entry may take
Values(key) ==
    {CfgTrue, CfgFalse, CfgTruthy, CfgObject(NoParams), CfgObject(Override(key))}
    \cup (IF key = "missing_values" THEN {CfgObject([method |-> 0])} ELSE {})

\* the preprocessing_config arguments: None, the empty mapping, a value that is no
\* mapping, a mapping with one entry, and the mapping that switches every factor off
RawConfigs ==
    {[kind |-> "none", entries |-> NoParams],
     [kind |-> "mapping", entries |-> NoParams],
     [kind |-> "nonmapping", entries |-> NoParams],
     [kind |-> "mapping", entries |-> [key \in StageNames |-> CfgFalse]]}
    \cup UNION {{[kind |-> "mapping", entries |-> [x \in {key} |-> val]] :
                    val \in Values(key)} : key \in StageNames}

\* AdvancedDataPreprocessor.__init__
__init__(d, target, cfg) ==
    [df |-> d,
     original_df |-> d,
     target_col |-> target,
     preprocessing_log |-> <<>>,
     preprocessing_stats |-> NoParams,
     config |-> InitConfig(cfg),
     numeric_cols |-> Without(ColsOfType(d, {"num"}), {target}),
     categorical_cols |-> Without(ColsOfType(d, {"object"}), {target}),
     datetime_cols |-> <<>>]

\* no second instance
NoPeer == [live |-> FALSE, interleaved |-> FALSE, inst |-> NoParams]

\* the library calls are left open
Free == [fixed |-> FALSE, env |-> NoEnv]

\* the state after AdvancedDataPreprocessor(d, target, cfg)
Start(d, target, cfg, orc) ==
    LET self == __init__(d, target, cfg)
    IN  /\ input_df = d
        /\ raw_config = cfg
        /\ target_col = self.target_col
        /\ config = self.config
        /\ df = self.df
        /\ original_df = self.original_df
        /\ numeric_cols = self.numeric_cols
        /\ categorical_cols = self.categorical_cols
        /\ datetime_cols = self.datetime_cols
        /\ preprocessing_log = self.preprocessing_log
        /\ preprocessing_stats = self.preprocessing_stats
        /\ pc = 1
        /\ returned = [kind |-> "none", df |-> NoFrame]
        /\ report = [made |-> FALSE, body |-> NoParams]
        /\ injected = FALSE
        /\ status = [key \in StageNames |-> "pending"]
        /\ events = <<>>
        /\ pre = [key |-> "", env |-> NoEnv,
                  self |-> SelfOf(self.df, self.numeric_cols,
                                  self.categorical_cols, self.datetime_cols,
                                  self.preprocessing_log, self.preprocessing_stats)]
        /\ peer = NoPeer
        /\ oracle = orc

Init ==
    \E d \in Datasets, target \in Targets, cfg \in RawConfigs :
        /\ d \in CaseDatasets => cfg.kind = "none" /\ target = "t"
        /\ Start(d, target, cfg, Free)

Spec == Init /\ [][Next]_vars

-----------------------------------------------------------------------------
(* Two requests: each constructs its own AdvancedDataPreprocessor *)

\* the k-th step of preprocess_all on an instance, the library calls returning e
StepOf(k, self, cfg, target, e) ==
    CASE k = 1 -> StepResult(StageOrder[1], self, cfg, _handle_missing_values(self, _get_factor_config(cfg, StageOrder[1]).params, OracleEnv(e, StageOrder[1])), 0).self
      [] k = 2 -> StepResult(StageOrder[2], self, cfg, _handle_duplicates(self, _get_factor_config(cfg, StageOrder[2]).params, OracleEnv(e, StageOrder[2])), 0).self
      [] k = 3 -> StepResult(StageOrder[3], self, cfg, _handle_invalid_data(self, _get_factor_config(cfg, StageOrder[3]).params, OracleEnv(e, StageOrder[3])), 0).self
      [] k = 4 -> StepResult(StageOrder[4], self, cfg, _handle_data_type_mismatches(self, _get_factor_config(cfg, StageOrder[4]).params, OracleEnv(e, StageOrder[4]), target), 0).self
      [] k = 5 -> StepResult(StageOrder[5], self, cfg, _handle_inconsistent_formats(self, _get_factor_config(cfg, StageOrder[5]).params, OracleEnv(e, StageOrder[5])), 0).self
      [] k = 6 -> StepResult(StageOrder[6], self, cfg, _handle_outliers(self, _get_factor_config(cfg, StageOrder[6]).params, OracleEnv(e, StageOrder[6])), 0).self
      [] k = 7 -> StepResult(StageOrder[7], self, cfg, _handle_cardinality(self, _get_factor_config(cfg, StageOrder[7]).params, OracleEnv(e, StageOrder[7])), 0).self
      [] k = 8 -> StepResult(StageOrder[8], self, cfg, _handle_low_variance_features(self, _get_factor_config(cfg, StageOrder[8]).params, OracleEnv(e, StageOrder[8])), 0).self
      [] k = 9 -> StepResult(StageOrder[9], self, cfg, _handle_feature_correlation(self, _get_factor_config(cfg, StageOrder[9]).params, OracleEnv(e, StageOrder[9])), 0).self
      [] k = 10 -> StepResult(StageOrder[10], self, cfg, _handle_mean_median_drift(self, _get_factor_config(cfg, StageOrder[10]).params, OracleEnv(e, StageOrder[10])), 0).self
      [] k = 11 -> StepResult(StageOrder[11], self, cfg, _handle_range_violations(self, _get_factor_config(cfg, StageOrder[11]).params, OracleEnv(e, StageOrder[11])), 0).self
      [] k = 12 -> StepResult(StageOrder[12], self, cfg, _handle_class_imbalance(self, _get_factor_config(cfg, StageOrder[12]).params, OracleEnv(e, StageOrder[12]), target), 0).self

\* the steps from the k-th on, one after the other
RECURSIVE StepsFrom(_, _, _, _, _)
StepsFrom(k, self, cfg, target, e) ==
    IF k > NStages THEN self ELSE StepsFrom(k + 1, StepOf(k, self, cfg, target, e), cfg, target, e)

\* preprocess_all on a newly constructed instance, from its first line to its
\* return: the state of the instance and the frame it returns
preprocess_all(new, e) ==
    IF DispatchRaises(new.config)
    THEN [self |-> SelfOf(new.df, new.numeric_cols, new.categorical_cols, new.datetime_cols, new.preprocessing_log, new.preprocessing_stats),
          returned |-> OuterReturn(new, new.original_df)]
    ELSE With(StepsFrom(1, SelfOf(new.df, new.numeric_cols, new.categorical_cols, new.datetime_cols, new.preprocessing_log, new.preprocessing_stats), new.config, new.target_col, e),
              LAMBDA s : With(_generate_preprocessing_report(s, new.original_df),
                              LAMBDA f : [self |-> f, returned |-> ReturnDf(f, new.original_df)]))

\* an instance and the position of the request that owns it
InstanceOf(d, rc, tc, cf, od, s, p, ret, rep, st, ev, pr) ==
    [input_df |-> d, raw_config |-> rc, target_col |-> tc, config |-> cf,
     original_df |-> od, self |-> s, pc |-> p, returned |-> ret, report |-> rep,
     status |-> st, events |-> ev, pre |-> pr]

\* the instance that runs
Running ==
    InstanceOf(input_df, raw_config, target_col, config, original_df, Self, pc, returned,
               report, status, events, pre)

\* preprocessor = AdvancedDataPreprocessor(df=df, target_col=..., preprocessing_config=...)
Constructed(d, target, cfg, new) ==
    InstanceOf(d, cfg, new.target_col, new.config, new.original_df,
               SelfOf(new.df, new.numeric_cols, new.categorical_cols, new.datetime_cols,
                      new.preprocessing_log, new.preprocessing_stats),
               1, [kind |-> "none", df |-> NoFrame], [made |-> FALSE, body |-> NoParams],
               [key \in StageNames |-> "pending"], <<>>,
               [key |-> "", env |-> NoEnv,
                self |-> SelfOf(new.df, new.numeric_cols, new.categorical_cols,
                                new.datetime_cols, new.preprocessing_log,
                                new.preprocessing_stats)])

\* an attribute of the class: every instance reads and writes the one value, the
\* value the instance that ran last has left
ClassAttribute(own, last) == last

\* self.preprocessing_log = [] and self.preprocessing_stats = {} are attributes of
\* the instance: the instance that resumes finds its own value
InstanceAttribute(own, last) == own

PairDatasets ==
    {MkFrame(X_plain, Y_double, C_plain, T_text, "object"),
     MkFrame(X_gap,   Y_const,  C_messy, T_rare, "num")}

PairConfigs ==
    {[kind |-> "none", entries |-> NoParams],
     [kind |-> "nonmapping", entries |-> NoParams],
     [kind |-> "mapping", entries |-> [x \in {"duplicates"} |-> CfgFalse]]}

\* what the library calls return on the frames of the two requests
Oracles ==
    {[fixed |-> TRUE, env |-> [impute |-> "lo", gate |-> g, numdate |-> FALSE, flagged |-> f]] :
        g \in BOOLEAN, f \in SUBSET (1..MaxFlagged)}

\* a second request arrives, at any moment of the first, and constructs its instance
Construct ==
    /\ ~peer.live
    /\ \E d \in PairDatasets, cfg \in PairConfigs :
          peer' = [live |-> TRUE, interleaved |-> FALSE,
                   inst |-> Constructed(d, "t", cfg, __init__(d, "t", cfg))]
    /\ UNCHANGED <<input_df, raw_config, target_col, config, df, original_df, numeric_cols,
                   categorical_cols, datetime_cols, preprocessing_log,
                   preprocessing_stats, pc, returned, report, injected, status, events,
                   pre, oracle>>

\* the scheduler stops the request that runs, between two of its steps, and resumes
\* the other one
Switch ==
    /\ peer.live
    /\ peer' = [live |-> TRUE, inst |-> Running,
                interleaved |-> (peer.interleaved
                                 \/ (pc \in 2..NStages /\ peer.inst.pc \in 2..NStages))]
    /\ input_df' = peer.inst.input_df
    /\ raw_config' = peer.inst.raw_config
    /\ target_col' = peer.inst.target_col
    /\ config' = peer.inst.config
    /\ original_df' = peer.inst.original_df
    /\ df' = peer.inst.self.df
    /\ numeric_cols' = peer.inst.self.numeric_cols
    /\ categorical_cols' = peer.inst.self.categorical_cols
    /\ datetime_cols' = peer.inst.self.datetime_cols
    /\ preprocessing_log' = InstanceAttribute(peer.inst.self.preprocessing_log, preprocessing_log)
    /\ preprocessing_stats' = InstanceAttribute(peer.inst.self.preprocessing_stats, preprocessing_stats)
    /\ pc' = peer.inst.pc
    /\ returned' = peer.inst.returned
    /\ report' = peer.inst.report
    /\ status' = peer.inst.status
    /\ events' = peer.inst.events
    /\ pre' = peer.inst.pre
    /\ UNCHANGED <<injected, oracle>>

InitPair == \E d \in PairDatasets, cfg \in PairConfigs, orc \in Oracles : Start(d, "t", cfg, orc)

NextPair ==
    \/ Step1 \/ Step2 \/ Step3 \/ Step4 \/ Step5 \/ Step6
    \/ Step7 \/ Step8 \/ Step9 \/ Step10 \/ Step11 \/ Step12
    \/ OuterExcept \/ GenerateReport \/ Return \/ GetReport
    \/ Construct \/ Switch

SpecPair == InitPair /\ [][NextPair]_vars

-----------------------------------------------------------------------------
(* Properties *)

\* preprocess_all has returned
Done == pc >= NStages + 3

\* the order of the stages the design document fixes
FixedOrder ==
    <<"missing_values", "duplicates", "invalid_data", "data_type_mismatch",
      "inconsistent_formats", "outliers", "cardinality", "low_variance",
      "feature_correlation", "mean_median_drift", "range_violations",
      "class_imbalance">>

Rank(key) == CHOOSE i \in 1..Len(FixedOrder) : FixedOrder[i] = key

\* what the caller's configuration says of a stage: "absent", or the kind of its value
RawKind(key) ==
    IF raw_config.kind = "mapping" /\ key \in DOMAIN raw_config.entries
    THEN raw_config.entries[key].kind
    ELSE "absent"

\* the k-th stage is dispatched and its handler does not return at once
Enabled(k) ==
    Dispatch(config, StageOrder[k]) /\ ~_get_factor_config(config, StageOrder[k]).none

\* the k-th stage is the one preprocess_all has just passed
JustPassed(k) == pc = k + 1 /\ pre.key = StageOrder[k]

StartsInOrder ==
    \A i, j \in 1..Len(events) :
        (i < j /\ events[i].ev = "start" /\ events[j].ev = "start")
            => /\ Rank(events[i].stage) < Rank(events[j].stage)
               /\ \E m \in (i+1)..(j-1) :
                     events[m].stage = events[i].stage /\ events[m].ev \in {"finish", "raise"}

SummaryLast ==
    \A i \in 1..Len(events) :
        events[i].ev = "report"
            => /\ i = Len(events)
               /\ pc > NStages
               /\ \A key \in StageNames : status[key] # "pending"

EveryEnabledStageStarted ==
    \A k \in 1..NStages :
        (pc > k /\ pc <= NStages + 2 /\ Enabled(k))
            => \E i \in 1..Len(events) :
                  events[i].ev = "start" /\ events[i].stage = FixedOrder[k]

\* C1: preprocess_all runs the enabled stages in the fixed order: a stage starts at
\* most once and only after every stage started before it has finished or raised, the
\* stages start in the order of the list, every enabled stage it has passed has
\* started, and the summary is generated after the twelfth stage, as the last event.
C1_FixedStageOrder == StartsInOrder /\ SummaryLast /\ EveryEnabledStageStarted

\* all twelve stages have run, one of them raised, and the summary is generated
C1_AllStagesRan ==
    /\ pc = NStages + 2
    /\ Len(events) = 2 * NStages + 1
    /\ \E key \in StageNames : status[key] = "raised"

\* C2: a stage the configuration sets to false is a no-op: passing it changes neither
\* the dataset nor the three column lists nor the log nor the stats, and at no time
\* does the log or the stats hold an entry of that stage.
C2_FalseStageIsNoOp ==
    /\ [](\A key \in StageNames :
            RawKind(key) = "false"
                => /\ key \notin DOMAIN preprocessing_stats
                   /\ \A i \in 1..Len(preprocessing_log) : preprocessing_log[i].stage # key)
    /\ [][\A k \in 1..NStages :
            (pc = k /\ pc' # k /\ RawKind(StageOrder[k]) = "false")
                => UNCHANGED <<df, numeric_cols, categorical_cols, datetime_cols,
                               preprocessing_log, preprocessing_stats>>]_vars

\* the duplicates stage, set to false, has been passed over a frame that holds a
\* duplicate row, and the other stages are at work
C2_FalseStagePassed ==
    /\ RawKind("duplicates") = "false"
    /\ pc > 3
    /\ status["duplicates"] = "disabled"
    /\ Duplicated(df, 1) # {}
    /\ status["missing_values"] = "completed"

\* the built-in defaults of a stage, overridden by the keys of p
Merged(key, p) ==
    [n \in DOMAIN DefaultParams[key] \cup DOMAIN p |->
        IF n \in DOMAIN p THEN p[n] ELSE DefaultParams[key][n]]

\* C3: the effective configuration of every stage, for a configuration that is a
\* mapping or None: absent or true, the stage is enabled with the built-in defaults;
\* false, it is disabled; a parameter object, it is enabled, the keys the object
\* supplies reach the handler, and a parameter the handler cannot do without is the
\* built-in default when the object omits it.
C3_EffectiveConfiguration ==
    raw_config.kind # "nonmapping" =>
        \A k \in 1..NStages :
            /\ RawKind(StageOrder[k]) \in {"absent", "true"}
                  => Enabled(k) /\ FactorParams(k) = DefaultParams[StageOrder[k]]
            /\ RawKind(StageOrder[k]) = "false" => ~Enabled(k)
            /\ RawKind(StageOrder[k]) = "object"
                  => /\ Enabled(k)
                     /\ \A n \in DOMAIN raw_config.entries[StageOrder[k]].params :
                           FactorParams(k)[n] = raw_config.entries[StageOrder[k]].params[n]
                     /\ \A n \in RequiredParams(StageOrder[k]) :
                           /\ n \in DOMAIN FactorParams(k)
                           /\ FactorParams(k)[n] =
                                 Merged(StageOrder[k],
                                        raw_config.entries[StageOrder[k]].params)[n]

\* C4: an exception inside a stage is not propagated: preprocess_all goes on to the
\* next stage and never takes its outer exception path, and when it has returned
\* every enabled stage after the failed one has run, the summary is in the stats and
\* the dataset returned is self.df.
C4_StageFailureContained ==
    \A k \in 1..NStages :
        status[StageOrder[k]] = "raised"
            => /\ pc > k
               /\ returned.kind \in {"none", "df"}
               /\ Done => /\ returned = [kind |-> "df", df |-> df]
                          /\ "summary" \in DOMAIN preprocessing_stats
                          /\ \A j \in (k+1)..NStages :
                                Enabled(j) => status[StageOrder[j]] \in {"completed", "raised"}

\* a stage raised, a later stage ran to completion, and preprocess_all returned self.df
C4_FailedStageThenReturn ==
    /\ Done
    /\ returned.kind = "df"
    /\ \E k \in 1..NStages : \E j \in (k+1)..NStages :
          status[StageOrder[k]] = "raised" /\ status[StageOrder[j]] = "completed"
                                           /\ StageOrder[j] \in DOMAIN preprocessing_stats

\* C5: a stage that raises is a no-op: right after it the dataset, the column lists,
\* the log and the stats are what they were right before it.
C5_FailedStageIsNoOp ==
    \A k \in 1..NStages :
        (JustPassed(k) /\ status[StageOrder[k]] = "raised") => Self = pre.self

\* a log entry that reports an error
IsErrorEntry(e) == e.text = "Error"

\* C6: a stage failure that was caught is recorded in the report: the log of the
\* report holds an error entry of every stage that raised.
C6_FailureInReport ==
    report.made =>
        \A key \in StageNames :
            status[key] = "raised"
                => \E i \in 1..Len(report.body.preprocessing_log) :
                      /\ report.body.preprocessing_log[i].stage = key
                      /\ IsErrorEntry(report.body.preprocessing_log[i])

\* C7: when the dispatch itself fails (the configuration is no mapping),
\* preprocess_all returns, and what it returns is the dataset the constructor was
\* given, cell for cell and column for column; and whenever it returns the original
\* frame, that frame is the constructor's input.
C7_OuterFailureReturnsInput ==
    /\ (Done /\ raw_config.kind = "nonmapping")
          => returned = [kind |-> "original_df", df |-> input_df]
    /\ returned.kind \in {"none", "df", "original_df"}
    /\ returned.kind = "original_df" => returned.df = input_df

\* preprocess_all has returned from its outer exception path
C7_OuterPathTaken ==
    /\ pc = NStages + 3
    /\ raw_config.kind = "nonmapping"
    /\ returned.kind = "original_df"
    /\ NRows(returned.df) > 0

\* C8: after a total failure the report documents it: its log or its stats hold an
\* entry, and its dataset information describes the dataset that was returned.
C8_TotalFailureInReport ==
    (report.made /\ returned.kind = "original_df")
        => /\ \/ Len(report.body.preprocessing_log) > 0
              \/ DOMAIN report.body.preprocessing_stats # {}
           /\ report.body.final_dataset_info.shape = Shape(returned.df)
           /\ report.body.final_dataset_info.columns = returned.df.cols

\* C9: the log is append-only: every step leaves the log it found as a prefix of the
\* log it leaves, and in every state the entries of an earlier stage come before the
\* entries of a later stage.
C9_LogAppendOnly ==
    /\ [](\A i, j \in 1..Len(preprocessing_log) :
            i < j => Rank(preprocessing_log[i].stage) <= Rank(preprocessing_log[j].stage))
    /\ [][IsPrefix(preprocessing_log, preprocessing_log')]_vars

\* the log holds entries of three stages
C9_LogOfSeveralStages ==
    Cardinality({preprocessing_log[i].stage : i \in 1..Len(preprocessing_log)}) >= 3

\* C10: when preprocess_all has returned, every key of the stats but 'summary' names
\* a stage that ran to completion, and no stage that was disabled or raised has an
\* entry.
C10_StatsOnlyOfCompletedStages ==
    Done =>
        /\ \A key \in DOMAIN preprocessing_stats :
              key = "summary" \/ (key \in StageNames /\ status[key] = "completed")
        /\ \A key \in StageNames :
              status[key] \in {"disabled", "raised"} => key \notin DOMAIN preprocessing_stats

\* a run with a disabled stage, a stage that raised and a stage that completed
C10_MixedRun ==
    /\ Done
    /\ "summary" \in DOMAIN preprocessing_stats
    /\ \E a, b, c \in StageNames :
          /\ status[a] = "disabled"
          /\ status[b] = "raised"
          /\ status[c] = "completed" /\ c \in DOMAIN preprocessing_stats

\* the frame has no column name twice, and every row has one cell for each column
WellFormed(d) ==
    /\ \A i, j \in 1..NCols(d) : i # j => d.cols[i] # d.cols[j]
    /\ \A i \in 1..NRows(d) : DOMAIN d.rows[i] = ColSet(d)
    /\ DOMAIN d.dtype = ColSet(d)

C12_ClassificationCurrent ==
    /\ Range(numeric_cols) \cup Range(categorical_cols) \cup Range(datetime_cols)
          \subseteq ColSet(df)
    /\ report.made =>
          Range(report.body.final_dataset_info.numeric_columns)
             \cup Range(report.body.final_dataset_info.categorical_columns)
             \cup Range(report.body.final_dataset_info.datetime_columns)
          \subseteq Range(report.body.final_dataset_info.columns)

\* C13: when the missing-value step has run to completion with drop threshold t
\* (in percent), every column that was missing in more than t percent of the rows is
\* dropped, and every column that had a missing value in at most t percent of the
\* rows, the target column included, is kept and has no missing value left.
C13_MissingValuesThreshold ==
    (JustPassed(1) /\ status["missing_values"] = "completed" /\ NRows(pre.self.df) > 0)
        => \A c \in ColSet(pre.self.df) :
              IF NullsIn(pre.self.df, c) * 100
                    > FactorParams(1)["max_missing_threshold"] * NRows(pre.self.df)
              THEN c \notin ColSet(df)
              ELSE NullsIn(pre.self.df, c) > 0 => (c \in ColSet(df) /\ NullsIn(df, c) = 0)

\* the rows that equal no row before them
FirstOccurrences(d) == {i \in 1..NRows(d) : \A j \in 1..(i-1) : d.rows[j] # d.rows[i]}

\* C14: duplicate removal with keep='first' has exact-match semantics: when the step
\* has run to completion, the frame is the frame before it with exactly the rows that
\* equal no earlier row in all their values, in their order; no other row is removed.
C14_DuplicatesExactMatch ==
    (JustPassed(2) /\ status["duplicates"] = "completed"
                   /\ ParamGet(FactorParams(2), "keep", 1) = 1)
        => /\ df.cols = pre.self.df.cols
           /\ df.rows = KeepRows(pre.self.df, FirstOccurrences(pre.self.df)).rows

\* C15: the outlier step never changes the number of rows; and when it has run to
\* completion, in every row the isolation forest flagged every numeric feature
\* column holds the median the column had before the step, and every other cell (of a
\* row not flagged, of a column that is no numeric feature, of the target) is what it
\* was.
C15_OutliersReplacedByMedian ==
    JustPassed(6) =>
        /\ NRows(df) = NRows(pre.self.df)
        /\ status["outliers"] = "completed" =>
              /\ df.cols = pre.self.df.cols
              /\ \A i \in 1..NRows(df) : \A c \in ColSet(df) :
                    df.rows[i][c] =
                        IF i \in pre.env.flagged /\ InSeq(c, pre.self.numeric_cols)
                        THEN MedianOf(NumVals(pre.self.df, c))
                        ELSE pre.self.df.rows[i][c]

\* the outlier step has replaced the values of a flagged row
C15_FlaggedRowReplaced ==
    /\ JustPassed(6)
    /\ status["outliers"] = "completed"
    /\ pre.env.flagged # {}
    /\ df # pre.self.df
    /\ target_col = "t"
    /\ df.dtype["t"] = "num"

\* the pairs of numeric feature columns whose correlation exceeds the threshold of
\* the correlation step, as the step found them
CorrelatedPairs ==
    {p \in (1..Len(pre.self.numeric_cols)) \X (1..Len(pre.self.numeric_cols)) :
        /\ p[1] < p[2]
        /\ HighCorrelation(pre.self.df, pre.self.numeric_cols[p[1]],
                           pre.self.numeric_cols[p[2]],
                           ParamGet(FactorParams(9), "threshold", 90))}

StagesRun == {key \in StageNames : status[key] \in {"completed", "raised"}}

\* C17: in the summary of the report, preprocessing_steps is the number of stages
\* that ran in this invocation, and rows_changed and columns_changed are the
\* original number of rows and of columns minus the final one.
C17_SummaryCounts ==
    (report.made /\ "summary" \in DOMAIN report.body.preprocessing_stats)
        => /\ report.body.preprocessing_stats["summary"].preprocessing_steps
                 = Cardinality(StagesRun)
           /\ report.body.preprocessing_stats["summary"].rows_changed
                 = NRows(input_df) - NRows(returned.df)
           /\ report.body.preprocessing_stats["summary"].columns_changed
                 = NCols(input_df) - NCols(returned.df)

\* the numeric and the categorical feature columns of a frame
NumericFeatures(d, target) == Range(Without(ColsOfType(d, {"num"}), {target}))

CategoricalFeatures(d, target) == Range(Without(ColsOfType(d, {"object"}), {target}))

\* an already-clean dataset: no missing and no infinite value, no duplicate row, no
\* value farther than three standard deviations from its column's mean, no numeric
\* column of low variance or with a mean-median drift, no correlated pair, text that
\* is normalised and of low cardinality, balanced classes
Clean(d, target) ==
    /\ NullCount(d) = 0
    /\ ~NonFinite(d, d.cols, {"inf"})
    /\ FirstOccurrences(d) = 1..NRows(d)
    /\ \A c \in NumericFeatures(d, target) :
          /\ OutOfRange(d, c, -1) \cup OutOfRange(d, c, 1) = {}
          /\ VarianceAbove(d, c, DefaultParams["low_variance"].threshold)
          /\ ~DriftAbove(d, c, DefaultParams["mean_median_drift"].threshold)
    /\ \A a, b \in NumericFeatures(d, target) :
          a # b => ~HighCorrelation(d, a, b, DefaultParams["feature_correlation"].threshold)
    /\ \A c \in CategoricalFeatures(d, target) :
          /\ Cardinality(Distinct(d, c)) <= DefaultParams["cardinality"].max_cardinality
          /\ \A i \in 1..NRows(d) :
                /\ d.rows[i][c].s \notin NumericText \cup DateText(TRUE)
                /\ ~ContainsAt(d.rows[i][c].s)
                /\ ~HasDigitRun(d.rows[i][c].s)
                /\ CleanText(d.rows[i][c].s) = d.rows[i][c].s
    /\ ~Imbalanced(d, target)

\* C18: the full pipeline, all stages enabled with the defaults and no fault of the
\* environment, returns an already-clean dataset as it was given, and the log of the
\* run holds no entry but those of the format normalization.
C18_CleanInputUnchanged ==
    (Done /\ ~injected /\ config = _get_default_config /\ Clean(input_df, target_col))
        => /\ returned = [kind |-> "df", df |-> input_df]
           /\ \A i \in 1..Len(preprocessing_log) :
                 preprocessing_log[i].stage = "inconsistent_formats"

\* how many values of a column are present, and how many of these convert to a
\* number and to a date
NonNullIn(d, c) == NRows(d) - NullsIn(d, c)

NumericHits(d, c) ==
    Cardinality({i \in 1..NRows(d) : ~IsNull(d.rows[i][c]) /\ ~IsNull(to_numeric(d.rows[i][c]))})

DateHits(d, c, numdate) ==
    Cardinality({i \in 1..NRows(d) :
                    ~IsNull(d.rows[i][c]) /\ ~IsNull(to_datetime(d.rows[i][c], numdate))})

\* C20: when the data-type step has run to completion, a text column that is not the
\* target has become numeric, and moved from the categorical to the numeric list,
\* exactly if at least 80% of its present values convert to numbers; failing that,
\* it has become a datetime exactly if at least 80% of them convert to dates; a
\* column that passes neither is unchanged; and the target column is unchanged.
C20_EightyPercentRule ==
    (JustPassed(4) /\ status["data_type_mismatch"] = "completed")
        => /\ \A c \in ColSet(pre.self.df) \ {target_col} :
                 (pre.self.df.dtype[c] = "object" /\ NonNullIn(pre.self.df, c) > 0)
                    => IF NumericHits(pre.self.df, c) * 10 >= 8 * NonNullIn(pre.self.df, c)
                       THEN /\ df.dtype[c] = "num"
                            /\ InSeq(c, numeric_cols)
                            /\ ~InSeq(c, categorical_cols)
                       ELSE IF DateHits(pre.self.df, c, pre.env.numdate) * 10
                                  >= 8 * NonNullIn(pre.self.df, c)
                       THEN df.dtype[c] = "datetime"
                       ELSE /\ df.dtype[c] = "object"
                            /\ Column(df, c) = Column(pre.self.df, c)
           /\ target_col \in ColSet(pre.self.df)
                 => /\ df.dtype[target_col] = pre.self.df.dtype[target_col]
                    /\ Column(df, target_col) = Column(pre.self.df, target_col)

\* what an instance ends with when its request is the only one
Alone(i) == preprocess_all(__init__(i.input_df, i.target_col, i.raw_config), oracle.env)

\* the instance starts with an empty log and empty statistics, and once its
\* preprocess_all has returned it holds what it holds when it runs alone
Independent(i) ==
    /\ i.pc = 1 => i.self.preprocessing_log = <<>> /\ i.self.preprocessing_stats = NoParams
    /\ i.pc >= NStages + 3
         => With(Alone(i), LAMBDA a : i.self = a.self /\ i.returned = a.returned)

\* C19: two instances of AdvancedDataPreprocessor, each constructed by its own
\* request, share no mutable state: however the steps of the two requests are
\* interleaved, each instance starts with an empty log and empty statistics and ends
\* with the frame, the column lists, the log and the statistics it ends with when it
\* runs alone.
C19_InstancesIndependent == Independent(Running) /\ (peer.live => Independent(peer.inst))

\* two requests on different frames, both through all their steps, the steps of
\* the one between the steps of the other, and both have returned their frame
C19_BothReturnedInterleaved ==
    /\ peer.live /\ peer.interleaved
    /\ pc = NStages + 4 /\ peer.inst.pc = NStages + 4
    /\ input_df # peer.inst.input_df
    /\ returned.kind = "df" /\ peer.inst.returned.kind = "df"
    /\ preprocessing_log # <<>> /\ peer.inst.self.preprocessing_log # <<>>
    /\ preprocessing_log # peer.inst.self.preprocessing_log

\* the numeric feature columns whose variance, before the low-variance step, is at
\* or below its threshold
LowVarianceColumns ==
    {c \in Range(pre.self.numeric_cols) :
        ~VarianceAbove(pre.self.df, c, ParamGet(FactorParams(8), "threshold", 1))}

\* the low-variance step has met a frame with a numeric feature column, every
\* numeric feature column in the frame and none with an infinite value, and nothing
\* has been made to fail
LowVarianceCase ==
    /\ JustPassed(8) /\ Enabled(8) /\ ~injected
    /\ Len(pre.self.numeric_cols) > 0
    /\ ~Stale(pre.self.df, pre.self.numeric_cols)
    /\ ~NonFinite(pre.self.df, pre.self.numeric_cols, {"inf"})

\* the step has dropped exactly the low-variance columns, from the frame and from
\* the numeric list, and its statistics name them
LowVarianceDropped ==
    /\ ColSet(df) = ColSet(pre.self.df) \ LowVarianceColumns
    /\ Range(numeric_cols) = Range(pre.self.numeric_cols) \ LowVarianceColumns
    /\ "low_variance" \in DOMAIN preprocessing_stats
    /\ Range(preprocessing_stats["low_variance"].removed_features) = LowVarianceColumns

\* C21: for every frame with at least one numeric feature column, also when every
\* numeric feature column is at or below the threshold, the low-variance step drops
\* exactly the numeric feature columns whose variance (on the frame before the step)
\* is at or below the threshold, removes them from the numeric list and records
\* them in its statistics.
C21_LowVarianceRemoved == LowVarianceCase => LowVarianceDropped

\* the numeric feature columns in a pair correlated above the threshold, on the
\* correlation matrix of the frame before the correlation step
PairParticipants ==
    {pre.self.numeric_cols[p[1]] : p \in CorrelatedPairs}
        \cup {pre.self.numeric_cols[p[2]] : p \in CorrelatedPairs}

\* the later column of every such pair
PairSeconds == {pre.self.numeric_cols[p[2]] : p \in CorrelatedPairs}

\* C22: when the correlation step has run to completion, the columns it has removed,
\* from the frame and from the numeric list, are all the numeric feature columns
\* that take part in at least one pair correlated above the threshold on the
\* correlation matrix of the frame before the step.
C22_EveryParticipantRemoved ==
    (JustPassed(9) /\ status["feature_correlation"] = "completed")
        => /\ ColSet(pre.self.df) \ ColSet(df) = PairParticipants
           /\ Range(numeric_cols) = Range(pre.self.numeric_cols) \ PairParticipants

\* the categorical columns of the frame before the format step in which a value
\* holds an '@' or a run of three digits
FormatMatches ==
    {c \in Range(pre.self.categorical_cols) \cap ColSet(pre.self.df) :
        AnyText(pre.self.df, c, ContainsAt) \/ AnyText(pre.self.df, c, HasDigitRun)}

\* C23: when the format step has run to completion, columns_fixed in its statistics
\* is the number of categorical columns that matched the email or the phone
\* heuristic: a column that matched both counts once, and the cleaning of white
\* space alone does not count.
C23_ColumnsFixedCountsColumns ==
    (JustPassed(5) /\ status["inconsistent_formats"] = "completed")
        => preprocessing_stats["inconsistent_formats"].columns_fixed
              = Cardinality(FormatMatches)

\* the target of the frame before the class-imbalance step is designated and
\* present, is categorical or numeric with at most 10 distinct values, and its
\* rarest class has less than half the rows of its most frequent one
ImbalanceQualifies ==
    /\ target_col # ""
    /\ target_col \in ColSet(pre.self.df)
    /\ (pre.self.df.dtype[target_col] = "object"
          \/ Cardinality(Distinct(pre.self.df, target_col)) <= 10)
    /\ Distinct(pre.self.df, target_col) # {}
    /\ 2 * SetMin(ClassCounts(pre.self.df, target_col))
          < SetMax(ClassCounts(pre.self.df, target_col))

\* the class-imbalance step has been passed, enabled, and nothing has been made to
\* fail
ImbalanceCase == JustPassed(12) /\ Enabled(12) /\ ~injected

\* C24: the class-imbalance step resamples exactly when the target is designated,
\* present, categorical or numeric with at most 10 distinct values (10 included),
\* and minority count / majority count is below 0.5: then, where SMOTE can run on
\* the frame, the number of rows has grown; in every other case the frame is what
\* it was.
C24_ImbalanceCorrectedWhenQualified ==
    ImbalanceCase =>
        /\ (ImbalanceQualifies /\ ~SmoteRaises(Encoded(pre.self.df, target_col), target_col))
              => NRows(df) > NRows(pre.self.df)
        /\ ~ImbalanceQualifies => df = pre.self.df

\* the ceiling of the cardinality step
Ceiling == ParamGet(FactorParams(7), "max_cardinality", 100)

\* the categorical columns of the frame before the cardinality step
CategoricalBefore == Range(pre.self.categorical_cols) \cap ColSet(pre.self.df)

\* column c has more distinct values than the ceiling
AboveCeiling(c) == Cardinality(Distinct(pre.self.df, c)) > Ceiling

\* K is a choice of the n most frequent values of column c before the step
MostFrequentN(K, c, n) ==
    /\ Cardinality(K) = n
    /\ \A x \in K : \A y \in Distinct(pre.self.df, c) \ K :
          CountOf(pre.self.df, c, x) >= CountOf(pre.self.df, c, y)

\* in column c the values of K are kept and every other value is 'Other'
ReducedTo(K, c) ==
    \A i \in 1..NRows(df) :
        df.rows[i][c] = IF pre.self.df.rows[i][c] \in K THEN pre.self.df.rows[i][c]
                        ELSE Str("Other")

\* C25: when the cardinality step with ceiling N has run to completion, a
\* categorical column with at most N distinct values is unchanged and not listed in
\* the statistics of the step; in a categorical column with more than N distinct
\* values N most frequent values are kept and every other value is 'Other', the
\* column has at most N+1 distinct values, and the statistics list it.
C25_CardinalityReducedToCeiling ==
    (JustPassed(7) /\ status["cardinality"] = "completed")
        => /\ NRows(df) = NRows(pre.self.df)
           /\ \A c \in CategoricalBefore :
                 IF AboveCeiling(c)
                 THEN /\ \E K \in SUBSET Distinct(pre.self.df, c) :
                            MostFrequentN(K, c, Ceiling) /\ ReducedTo(K, c)
                      /\ Cardinality(Distinct(df, c)) <= Ceiling + 1
                      /\ InSeq(c, preprocessing_stats["cardinality"].columns_modified)
                 ELSE /\ \A i \in 1..NRows(df) : df.rows[i][c] = pre.self.df.rows[i][c]
                      /\ ~InSeq(c, preprocessing_stats["cardinality"].columns_modified)

\* the cardinality step has met a column with more distinct values than a ceiling
\* of at least one, and has kept a value and turned another into 'Other'
C25_ColumnReduced ==
    /\ JustPassed(7)
    /\ status["cardinality"] = "completed"
    /\ Ceiling >= 1
    /\ \E c \in CategoricalBefore :
          /\ AboveCeiling(c)
          /\ \E i, j \in 1..NRows(df) :
                /\ df.rows[i][c] = pre.self.df.rows[i][c]
                /\ df.rows[i][c] # Str("Other")
                /\ df.rows[j][c] # pre.self.df.rows[j][c]
                /\ df.rows[j][c] = Str("Other")

\* the numeric feature columns of the frame before the drift step
NumericBefore == Range(pre.self.numeric_cols) \cap ColSet(pre.self.df)

\* the mean of column c is not zero and its drift exceeds the threshold of the step
Drifting(c) == DriftAbove(pre.self.df, c, ParamGet(FactorParams(10), "threshold", 20))

\* no value of column c is missing, zero or negative
StrictlyPositive(c) ==
    \A i \in 1..NRows(pre.self.df) :
        /\ ~IsNull(pre.self.df.rows[i][c])
        /\ pre.self.df.rows[i][c].k = "num" => pre.self.df.rows[i][c].v > 0

\* every value of column c is log(1 + x) of the value it was
Log1pApplied(c) ==
    \A i \in 1..NRows(df) : df.rows[i][c] = log1p(pre.self.df.rows[i][c])

\* C26: when the drift step has run to completion, a numeric feature column whose
\* mean is not zero, whose drift exceeds the threshold and whose values are all
\* strictly positive holds log(1 + x) of its values and is listed in the statistics;
\* a numeric feature column that exceeds the threshold and has a value that is not
\* positive is listed and unchanged; every other column is unchanged and not listed.
C26_DriftTransformsPositiveColumns ==
    (JustPassed(10) /\ status["mean_median_drift"] = "completed")
        => /\ NRows(df) = NRows(pre.self.df)
           /\ ColSet(df) = ColSet(pre.self.df)
           /\ \A c \in ColSet(df) :
                 /\ InSeq(c, preprocessing_stats["mean_median_drift"].transformed_columns)
                       <=> (c \in NumericBefore /\ Drifting(c))
                 /\ IF c \in NumericBefore /\ Drifting(c) /\ StrictlyPositive(c)
                    THEN Log1pApplied(c)
                    ELSE \A i \in 1..NRows(df) : df.rows[i][c] = pre.self.df.rows[i][c]

\* the drift step has transformed a column and has listed another one, which has a
\* value that is not positive, without changing it
C26_OneTransformedOneListed ==
    /\ JustPassed(10)
    /\ status["mean_median_drift"] = "completed"
    /\ \E c \in NumericBefore :
          Drifting(c) /\ StrictlyPositive(c) /\ Log1pApplied(c)
             /\ \E i \in 1..NRows(df) : df.rows[i][c] # pre.self.df.rows[i][c]
    /\ \E c \in NumericBefore :
          /\ Drifting(c)
          /\ \E i \in 1..NRows(df) :
                pre.self.df.rows[i][c].k = "num" /\ pre.self.df.rows[i][c].v <= 0

\* the numeric feature columns the missing-value step has dropped from the frame
DroppedNumeric ==
    {c \in Range(pre.self.numeric_cols) :
        \E i \in 1..Len(pre.self.preprocessing_log) :
            /\ pre.self.preprocessing_log[i].stage = "missing_values"
            /\ pre.self.preprocessing_log[i].text = "Dropped columns with >50% missing values"
            /\ InSeq(c, pre.self.preprocessing_log[i].cols)}

\* the numeric feature columns that remain in the frame before the step
RemainingNumeric == SelectSeq(pre.self.numeric_cols, LAMBDA c : c \in ColSet(pre.self.df))

\* the library call of the k-th step accepts the remaining numeric columns
LibraryAccepts(k) ==
    CASE k = 6 -> ~ForestRaises(pre.self.df, RemainingNumeric)
      [] k = 8 -> ~VarianceRaises(pre.self.df, RemainingNumeric,
                                  ParamGet(FactorParams(8), "threshold", 1))
      [] OTHER -> TRUE

\* C27: when the missing-value step has dropped a numeric feature column, the
\* enabled steps that work on the numeric columns together (outliers, low variance,
\* feature correlation) run to completion on the remaining numeric columns and record
\* their statistics.
C27_LaterStagesSurviveColumnDrop ==
    \A k \in {6, 8, 9} :
        (JustPassed(k) /\ Enabled(k) /\ ~injected /\ DroppedNumeric # {}
                       /\ RemainingNumeric # <<>> /\ LibraryAccepts(k))
            => /\ status[StageOrder[k]] = "completed"
               /\ StageOrder[k] \in DOMAIN preprocessing_stats

\* the steps that may change the number of rows, and those that may change the set
\* of column names
RowSteps == {"duplicates", "class_imbalance"}
ColumnSteps == {"missing_values", "low_variance", "feature_correlation", "class_imbalance"}

\* C28: the number of rows changes only in the duplicates step, where it can only
\* fall, and in the class-imbalance step, where it can only grow; the set of column
\* names changes only in the missing-value, low-variance and correlation steps,
\* where columns are only removed, and in the class-imbalance step; every other
\* step leaves both as they were, whether it completes or fails.
C28_RowAndColumnFrame ==
    pre.key # "" =>
        /\ pre.key \notin RowSteps => NRows(df) = NRows(pre.self.df)
        /\ pre.key = "duplicates" => NRows(df) <= NRows(pre.self.df)
        /\ pre.key = "class_imbalance" => NRows(df) >= NRows(pre.self.df)
        /\ pre.key \notin ColumnSteps => ColSet(df) = ColSet(pre.self.df)
        /\ pre.key \in ColumnSteps \ {"class_imbalance"}
              => ColSet(df) \subseteq ColSet(pre.self.df)

\* a run in which the duplicates step has removed a row, the class-imbalance step
\* has added rows and columns, and the outlier step has replaced flagged values
C28_RowsFellAndGrew ==
    /\ JustPassed(12)
    /\ NRows(df) > NRows(pre.self.df)
    /\ ColSet(df) # ColSet(pre.self.df)
    /\ "duplicates" \in DOMAIN preprocessing_stats
    /\ preprocessing_stats["duplicates"].removed > 0
    /\ "outliers" \in DOMAIN preprocessing_stats
    /\ preprocessing_stats["outliers"].outliers_detected > 0

\* C29: every step that has run to completion has a statistics entry under its own
\* name, whether or not it changed anything; after a run in which all twelve steps
\* have run to completion the statistics hold an entry for each of them.
C29_CompletedStageHasStats ==
    \A key \in StageNames : status[key] = "completed" => key \in DOMAIN preprocessing_stats

\* C30: the frame the caller passed to the constructor and the copy the preprocessor
\* saved of it are equal at construction and are changed by no step, completed or
\* failed, nor by the report or the return: only the working frame changes.
C30_CallerFrameUntouched ==
    [](original_df = input_df) /\ [][input_df' = input_df /\ original_df' = original_df]_vars

\* preprocess_all has returned after a step failed, and the working frame is no
\* longer the frame the caller passed
C30_WorkingCopyChanged ==
    /\ Done
    /\ \E key \in StageNames : status[key] = "raised"
    /\ returned.kind = "df"
    /\ df # input_df
    /\ NRows(df) # NRows(input_df)
    /\ ColSet(df) # ColSet(input_df)

====
